---- MODULE Spec2Model ----
(***************************************************************************)
(* State-machine model of the PRIME / PPO driver loop                      *)
(* (verl/trainer/ppo/ray_trainer.py, RayPRIMETrainer.fit and its helpers), *)
(* of the KL controllers and advantage estimators of                       *)
(* verl/trainer/ppo/core_algos.py and of the PRIME reward model worker of  *)
(* verl/workers/fsdp_workers.py.                                           *)
(*                                                                         *)
(* Real-valued quantities (KL coefficient, accuracies, rewards) are exact  *)
(* rationals <<numerator, denominator>>; where a result depends on it, an  *)
(* operation on torch.float32 tensors rounds to float32 (Fl).              *)
(***************************************************************************)
EXTENDS Integers, Sequences, FiniteSets, TLC

VARIABLES
    cfg,            \* the configuration object (self.config and the role mapping), fixed after __init__
    pc,             \* position of the driver inside fit
    epoch,          \* loop variable of `for epoch in range(total_epochs)`
    loader_left,    \* batches the epoch's dataloader iterator can still yield
    next_prompt,    \* identity given to the next prompt the data source yields
    buffer,         \* self.train_dataloader.buffer: prompt-only rows
    buffer_batch,   \* local buffer_batch of fit
    newbatch,       \* local newbatch of fit (prompt rows of the current round)
    roll_batch,     \* local roll_batch of fit (rollout rows of the current round)
    valid_batch,    \* local valid_batch of fit
    batch,          \* local batch of fit (rows handed to scoring/advantage/updates)
    kl_ctrl,        \* self.kl_ctrl
    global_steps,   \* self.global_steps
    metrics,        \* the step's metrics that matter here (critic/kl_coeff, critic/kl)
    checkpoints,    \* set of <<role, step key>> written by save_checkpoint
    log,            \* history: stages and dispatches of the current step, in order
    kl_updates,     \* history: number of kl_ctrl.update calls since fit started
    completed,      \* history: number of completed training steps
    args            \* inputs of the next call in the unit specifications

vars == <<cfg, pc, epoch, loader_left, next_prompt, buffer, buffer_batch, newbatch,
          roll_batch, valid_batch, batch, kl_ctrl, global_steps, metrics,
          checkpoints, log, kl_updates, completed, args>>

(***************************************************************************)
(* Bounds of the model                                                     *)
(***************************************************************************)
train_batch_size == 2
oversample_factor == 1
n_samples == 2
max_prompt_length == 1
LoaderLen == 3
total_epochs == 1
MaxWarmup == 1
MaxSaveFreq == 2
MaxUnitSteps == 2

None == -1
OldLogProbs == {-1}
RefLogProbs == {-2, -1}
RmScores == {0}
Values == {0}

\* accuracies the verifier may give the n rollouts of one prompt: the first k correct
\* (every group mean k/n), or only the last one correct
GroupAccs(n) ==
    {[i \in 1..n |-> IF i <= k THEN 1 ELSE 0] : k \in 0..n}
    \cup {[i \in 1..n |-> IF i = n THEN 1 ELSE 0]}

\* accuracy vectors the verifier may return for `rows` rollouts in groups of n:
\* one pattern for the odd groups and one for the even groups
AccVectors(rows, n) ==
    {[j \in 1..rows |->
        LET g == ((j - 1) \div n) + 1
            i == ((j - 1) % n) + 1
        IN  IF g % 2 = 1 THEN a[i] ELSE b[i]] : a \in GroupAccs(n), b \in GroupAccs(n)}

\* per-row values a worker may return for `rows` rows: one value for the odd rows
\* and one for the even rows
RowVectors(rows, S) ==
    {[j \in 1..rows |-> IF j % 2 = 1 THEN a ELSE b] : a \in S, b \in S}

(***************************************************************************)
(* Exact rational arithmetic                                               *)
(***************************************************************************)
Abs(x) == IF x < 0 THEN -x ELSE x

RECURSIVE GCD(_, _)
GCD(a, b) == IF b = 0 THEN a ELSE GCD(b, a % b)

Norm(r) ==
    LET n == r[1]
        d == r[2]
        g == GCD(Abs(n), Abs(d))
        s == IF d < 0 THEN -1 ELSE 1
    IN  IF n = 0 THEN <<0, 1>> ELSE <<(s * n) \div g, (s * d) \div g>>

Rat(n) == <<n, 1>>

\* least common denominator of two normalised rationals
LCD(a, b) == (a[2] \div GCD(a[2], b[2])) * b[2]

RAdd(a, b) ==
    LET l == LCD(a, b) IN Norm(<<a[1] * (l \div a[2]) + b[1] * (l \div b[2]), l>>)
RSub(a, b) ==
    LET l == LCD(a, b) IN Norm(<<a[1] * (l \div a[2]) - b[1] * (l \div b[2]), l>>)
RMul(a, b) ==
    LET x == Norm(<<a[1], b[2]>>)
        y == Norm(<<b[1], a[2]>>)
    IN  Norm(<<x[1] * y[1], x[2] * y[2]>>)
RDiv(a, b) == RMul(a, Norm(<<b[2], b[1]>>))
RLe(a, b) == LET l == LCD(a, b) IN a[1] * (l \div a[2]) <= b[1] * (l \div b[2])
RLt(a, b) == LET l == LCD(a, b) IN a[1] * (l \div a[2]) < b[1] * (l \div b[2])
RMin(a, b) == IF RLe(a, b) THEN a ELSE b
RMax(a, b) == IF RLe(a, b) THEN b ELSE a

\* np.clip(x, lo, hi)
clip(x, lo, hi) == RMin(RMax(x, lo), hi)

(***************************************************************************)
(* float32 rounding.  The reward tensors are torch.float32; every tensor   *)
(* operation returns the float32 nearest to its exact result (ties to      *)
(* even).  Exponent range, infinities and NaN are outside the values used. *)
(***************************************************************************)
MantissaBits == 24

RECURSIVE Pow2(_)
Pow2(k) == IF k = 0 THEN 1 ELSE 2 * Pow2(k - 1)

RECURSIVE OddPart(_)
OddPart(n) == IF n % 2 = 0 /\ n # 0 THEN OddPart(n \div 2) ELSE n

\* a normalised rational that is a float32 already
Representable(q) == OddPart(q[2]) = 1 /\ OddPart(Abs(q[1])) < Pow2(MantissaBits)

\* <<n', d', k>> with n / d = (n' / d') / 2^k and lo <= n' / d' < 2 * lo
RECURSIVE FlScale(_, _, _, _)
FlScale(n, d, k, lo) ==
    IF n \div d < lo
    THEN IF d % 2 = 0 THEN FlScale(n, d \div 2, k + 1, lo) ELSE FlScale(2 * n, d, k + 1, lo)
    ELSE IF n \div d >= 2 * lo
    THEN IF n % 2 = 0 THEN FlScale(n \div 2, d, k - 1, lo) ELSE FlScale(n, 2 * d, k - 1, lo)
    ELSE <<n, d, k>>

\* sign * (s[1] / s[2]) / 2^s[3] with s[1] / s[2] rounded to an integer, ties to even
FlRound(s, sign) ==
    LET m0 == s[1] \div s[2]
        rem == s[1] % s[2]
        m == IF 2 * rem > s[2] \/ (2 * rem = s[2] /\ m0 % 2 = 1) THEN m0 + 1 ELSE m0
    IN  IF s[3] >= 0 THEN Norm(<<sign * m, Pow2(s[3])>>)
        ELSE Norm(<<sign * m * Pow2(-s[3]), 1>>)

\* the float32 nearest to the rational q, ties to even
Fl(q) ==
    IF Representable(q) THEN q
    ELSE FlRound(FlScale(Abs(q[1]), q[2], 0, Pow2(MantissaBits - 1)),
                 IF q[1] < 0 THEN -1 ELSE 1)

\* sum of a sequence of float32 values, accumulated from the left
RECURSIVE FlSumFrom(_, _, _)
FlSumFrom(s, i, acc) ==
    IF i > Len(s) THEN acc ELSE FlSumFrom(s, i + 1, Fl(RAdd(acc, s[i])))

FlSum(s) == FlSumFrom(s \o <<>>, 1, Rat(0))

RECURSIVE SumSeq(_)
SumSeq(s) == IF s = <<>> THEN 0 ELSE Head(s) + SumSeq(Tail(s))

\* least common multiple of a set of positive integers
RECURSIVE LcmSet(_)
LcmSet(S) ==
    IF S = {} THEN 1
    ELSE LET x == CHOOSE y \in S : TRUE
             r == LcmSet(S \ {x})
         IN  (x \div GCD(x, r)) * r

\* sum of a sequence of normalised rationals, over their common denominator
\* (s \o <<>> is s, evaluated once)
RSumSeq(s) ==
    LET t == s \o <<>>
        d == LcmSet({t[i][2] : i \in 1..Len(t)})
    IN  Norm(<<SumSeq([i \in 1..Len(t) |-> t[i][1] * (d \div t[i][2])] \o <<>>), d>>)

RECURSIVE Flatten(_)
Flatten(ss) == IF ss = <<>> THEN <<>> ELSE Head(ss) \o Flatten(Tail(ss))

(***************************************************************************)
(* Rows of a DataProto.  A prompt row carries the three generation inputs; *)
(* a rollout row carries prompt + response and the response-side tensors.  *)
(***************************************************************************)
PromptKeys == {"input_ids", "attention_mask", "position_ids"}

\* a prompt of the data source, left-padded to max_prompt_length
PromptRow(p) ==
    [input_ids |-> [i \in 1..max_prompt_length |-> IF i = max_prompt_length THEN p ELSE 0],
     attention_mask |-> [i \in 1..max_prompt_length |-> IF i = max_prompt_length THEN 1 ELSE 0],
     position_ids |-> [i \in 1..max_prompt_length |-> 0]]

\* the prompt a row belongs to: the last token of the prompt region
PromptOf(row) == row.input_ids[max_prompt_length]

\* DataProto.concat
concat(parts) == Flatten(parts)

\* DataProto.slice with a list of 0-based row indices
slice(data, idx) == [j \in 1..Len(idx) |-> data[idx[j] + 1]]

\* DataProto.slice with a boolean mask
RECURSIVE slice_mask(_, _)
slice_mask(data, mask) ==
    IF data = <<>> THEN <<>>
    ELSE (IF Head(mask) THEN <<Head(data)>> ELSE <<>>) \o slice_mask(Tail(data), Tail(mask))

\* DataProto.select(batch_keys=...)
select(data, keys) == [j \in 1..Len(data) |-> [k \in keys |-> data[j][k]]]

\* DataProto.slice_batch(start, length, dim=1)
slice_batch(data, start, length) ==
    [j \in 1..Len(data) |->
        [k \in DOMAIN data[j] |-> SubSeq(data[j][k], start + 1, start + length)]]

\* python range(start, stop, step), step > 0
PyRange(start, stop, step) ==
    LET cnt == IF stop <= start THEN 0 ELSE ((stop - start - 1) \div step) + 1
    IN  [j \in 1..cnt |-> start + (j - 1) * step]

\* torch.Tensor.repeat_interleave(n) on a 1-d tensor
repeat_interleave(t, n) == [j \in 1..(Len(t) * n) |-> t[((j - 1) \div n) + 1]]

(***************************************************************************)
(* Configuration                                                           *)
(***************************************************************************)
\* data.filter_accuracy with accuracy_lower_bound / accuracy_upper_bound, as rationals
FilterSetups ==
    {[filter_accuracy |-> FALSE, lower |-> <<1, 5>>, upper |-> <<4, 5>>],
     [filter_accuracy |-> TRUE, lower |-> <<3, 5>>, upper |-> <<9, 10>>],
     [filter_accuracy |-> TRUE, lower |-> <<1, 2>>, upper |-> <<1, 1>>]}

\* kl_ctrl.kl_coef, kl_ctrl.target_kl, kl_ctrl.horizon
KlCoefs == {<<1, 10>>}
TargetKls == {<<5, 11>>}
Horizons == {4}

\* role mapping and kl_ctrl.type: no reference policy, or one with a fixed / adaptive controller
KlSetups == {[use_reference_policy |-> FALSE, kl_type |-> "fixed"],
             [use_reference_policy |-> TRUE, kl_type |-> "fixed"],
             [use_reference_policy |-> TRUE, kl_type |-> "adaptive"]}

\* algorithm.adv_estimator, trainer.critic_warmup, trainer.total_training_steps,
\* trainer.save_freq, the reward model role with reward_model.prime_model.update, and
\* trainer.test_freq with whether the trainer was given a val_reward_fn
TrainerSetups ==
    {[adv_estimator |-> "gae", critic_warmup |-> 0, total_training_steps |-> None,
      save_freq |-> 0, use_rm |-> FALSE, rm_update |-> "none",
      test_freq |-> 1, val_reward_fn |-> TRUE],
     [adv_estimator |-> "rloo", critic_warmup |-> MaxWarmup, total_training_steps |-> 1,
      save_freq |-> 1, use_rm |-> TRUE, rm_update |-> "none",
      test_freq |-> 1, val_reward_fn |-> FALSE],
     [adv_estimator |-> "gae", critic_warmup |-> MaxWarmup, total_training_steps |-> None,
      save_freq |-> MaxSaveFreq, use_rm |-> TRUE, rm_update |-> "after",
      test_freq |-> MaxSaveFreq, val_reward_fn |-> TRUE],
     [adv_estimator |-> "rloo", critic_warmup |-> 0, total_training_steps |-> None,
      save_freq |-> MaxSaveFreq, use_rm |-> FALSE, rm_update |-> "none",
      test_freq |-> 1, val_reward_fn |-> TRUE],
     [adv_estimator |-> "remax", critic_warmup |-> 0, total_training_steps |-> None,
      save_freq |-> 0, use_rm |-> FALSE, rm_update |-> "none",
      test_freq |-> 1, val_reward_fn |-> FALSE]}

Configs ==
    {[adv_estimator |-> tr.adv_estimator, use_reference_policy |-> k.use_reference_policy,
      kl_type |-> k.kl_type, kl_coef |-> c, target_kl |-> t, horizon |-> h,
      kl_penalty |-> "kl", use_rm |-> tr.use_rm, rm_update |-> tr.rm_update,
      critic_warmup |-> tr.critic_warmup,
      total_training_steps |-> tr.total_training_steps,
      filter_accuracy |-> f.filter_accuracy,
      accuracy_lower_bound |-> f.lower, accuracy_upper_bound |-> f.upper,
      save_freq |-> tr.save_freq, test_freq |-> tr.test_freq,
      val_reward_fn |-> tr.val_reward_fn] :
        k \in KlSetups, c \in KlCoefs, t \in TargetKls,
        h \in Horizons, tr \in TrainerSetups, f \in FilterSetups}

\* int(train_batch_size * oversample_factor): prompts per batch of the data source
LoaderBatch == train_batch_size * oversample_factor

\* batch_size * n_samples: rollouts a step needs
Target == train_batch_size * n_samples

(***************************************************************************)
(* KL controllers                                                          *)
(***************************************************************************)
AdaptiveKLController(init_kl_coef, target_kl, horizon) ==
    [type |-> "adaptive", value |-> init_kl_coef, target |-> target_kl, horizon |-> horizon]

FixedKLController(kl_coef) == [type |-> "fixed", value |-> kl_coef]

\* the adaptive update without the clip of the proportional error
AdaptiveUpdate_no_clip(ctrl, current_kl, n_steps) ==
    LET target == ctrl.target
        proportional_error == RSub(RDiv(current_kl, target), Rat(1))
        mult == RAdd(Rat(1), RDiv(RMul(proportional_error, Rat(n_steps)), Rat(ctrl.horizon)))
    IN  [ctrl EXCEPT !.value = RMul(ctrl.value, mult)]

\* AdaptiveKLController.update
AdaptiveUpdate(ctrl, current_kl, n_steps) ==
    LET target == ctrl.target
        proportional_error ==
            clip(RSub(RDiv(current_kl, target), Rat(1)), <<-1, 5>>, <<1, 5>>)
        mult == RAdd(Rat(1), RDiv(RMul(proportional_error, Rat(n_steps)), Rat(ctrl.horizon)))
    IN  [ctrl EXCEPT !.value = RMul(ctrl.value, mult)]

\* FixedKLController.update
FixedUpdate(ctrl, current_kl, n_steps) == ctrl

\* kl_ctrl.update(current_kl, n_steps), dispatched on the controller's class
update(ctrl, current_kl, n_steps) ==
    IF ctrl.type = "adaptive" THEN AdaptiveUpdate(ctrl, current_kl, n_steps)
    ELSE FixedUpdate(ctrl, current_kl, n_steps)

\* the controller __init__ builds
InitKlCtrl(c) ==
    IF c.use_reference_policy
    THEN IF c.kl_type = "fixed" THEN FixedKLController(c.kl_coef)
         ELSE AdaptiveKLController(c.kl_coef, c.target_kl, c.horizon)
    ELSE FixedKLController(Rat(0))

\* set by init_workers from the estimator name
use_critic == cfg.adv_estimator = "gae"

\* self.total_training_steps, as _create_dataloader computes it
total_training_steps ==
    IF cfg.total_training_steps # None THEN cfg.total_training_steps
    ELSE LoaderLen * total_epochs

(***************************************************************************)
(* Collection helpers of the trainer                                       *)
(***************************************************************************)
\* rows [g*n, (g+1)*n) of a 1-d tensor, g counted from 0 (one row of reshape(-1, n))
GroupOf(t, g, n) == SubSeq(t, g * n + 1, (g + 1) * n)

\* filter with an exclusive lower bound
filter_strict_lower(acc, data, n) ==
    LET groups == Len(acc) \div n
        acc_tensor == [g \in 1..groups |-> <<SumSeq(GroupOf(acc, g - 1, n)), n>>]
        acc_mask == [g \in 1..groups |->
                        RLt(cfg.accuracy_lower_bound, acc_tensor[g])
                        /\ RLe(acc_tensor[g], cfg.accuracy_upper_bound)]
    IN  slice_mask(data, repeat_interleave(acc_mask, n))

\* RayPRIMETrainer.filter: acc is the per-row accuracy (reward_tensor.sum(-1))
filter(acc, data, n) ==
    LET groups == Len(acc) \div n
        acc_tensor == [g \in 1..groups |-> <<SumSeq(GroupOf(acc, g - 1, n)), n>>]
        acc_mask == [g \in 1..groups |->
                        RLe(cfg.accuracy_lower_bound, acc_tensor[g])
                        /\ RLe(acc_tensor[g], cfg.accuracy_upper_bound)]
    IN  slice_mask(data, repeat_interleave(acc_mask, n))

\* add_to_buffer buffering the prompts of the kept groups instead of the excess ones
add_to_buffer_wrong_prompts(data, batch_size, n) ==
    LET buffer_length == (Len(data) \div n) - batch_size
        picked == slice(data, PyRange(0, buffer_length * n, n))
        prompts == slice_batch(select(picked, PromptKeys), 0, max_prompt_length)
        buffer_mask == [g \in 1..(buffer_length + batch_size) |-> g <= batch_size]
    IN  [batch |-> slice_mask(data, repeat_interleave(buffer_mask, n)),
         buffer_batch |-> prompts]

\* add_to_buffer with a mask that is tiled instead of interleaved
add_to_buffer_tiled(data, batch_size, n) ==
    LET buffer_length == (Len(data) \div n) - batch_size
        picked == slice(data, PyRange(batch_size * n, (buffer_length + batch_size) * n, n))
        prompts == slice_batch(select(picked, PromptKeys), 0, max_prompt_length)
        groups == buffer_length + batch_size
        buffer_mask == [g \in 1..groups |-> g <= batch_size]
    IN  [batch |-> slice_mask(data, [j \in 1..(groups * n) |-> buffer_mask[((j - 1) % groups) + 1]]),
         buffer_batch |-> prompts]

\* add_to_buffer keeping the last batch_size groups instead of the first
add_to_buffer_keep_last(data, batch_size, n) ==
    LET buffer_length == (Len(data) \div n) - batch_size
        picked == slice(data, PyRange(batch_size * n, (buffer_length + batch_size) * n, n))
        prompts == slice_batch(select(picked, PromptKeys), 0, max_prompt_length)
        buffer_mask == [g \in 1..(buffer_length + batch_size) |-> g > buffer_length]
    IN  [batch |-> slice_mask(data, repeat_interleave(buffer_mask, n)),
         buffer_batch |-> prompts]

\* RayPRIMETrainer.add_to_buffer: the kept batch and the rows handed to the dataloader's buffer
add_to_buffer(data, batch_size, n) ==
    LET buffer_length == (Len(data) \div n) - batch_size
        picked == slice(data, PyRange(batch_size * n, (buffer_length + batch_size) * n, n))
        prompts == slice_batch(select(picked, PromptKeys), 0, max_prompt_length)
        buffer_mask == [g \in 1..(buffer_length + batch_size) |-> g <= batch_size]
    IN  [batch |-> slice_mask(data, repeat_interleave(buffer_mask, n)),
         buffer_batch |-> prompts]

\* BufferedDataLoader.get_from_buffer: the first `count` buffered prompts (all, if fewer)
get_from_buffer(buf, count) ==
    LET k == IF count > Len(buf) THEN Len(buf) ELSE count
    IN  [samples |-> SubSeq(buf, 1, k), rest |-> SubSeq(buf, k + 1, Len(buf))]

\* actor_rollout_wg.generate_sequences with meta_info n_samples = n: every prompt
\* gets n rollouts in consecutive rows; olp gives each row's old_log_probs
generate_sequences(prompts, n, olp) ==
    [j \in 1..(Len(prompts) * n) |->
        LET pr == prompts[((j - 1) \div n) + 1]
            k == ((j - 1) % n) + 1
        IN  [input_ids |-> pr.input_ids \o <<k>>,
             attention_mask |-> pr.attention_mask \o <<1>>,
             position_ids |-> pr.position_ids \o <<1>>,
             responses |-> <<k>>,
             old_log_probs |-> <<olp[j]>>]]

\* generate_sequences with meta_info n_samples = 1 and do_sample = False: one greedy
\* rollout per prompt, written as response token 0 (a sampled response is 1..n)
generate_greedy(prompts, olp) ==
    [i \in 1..Len(prompts) |->
        [input_ids |-> prompts[i].input_ids \o <<0>>,
         attention_mask |-> prompts[i].attention_mask \o <<1>>,
         position_ids |-> prompts[i].position_ids \o <<1>>,
         responses |-> <<0>>,
         old_log_probs |-> <<olp[i]>>]]

\* whether a rollout row is a greedy sample
IsGreedy(row) == row.responses = <<0>>

\* the remax generation that appends the greedy sample after the stochastic ones
remax_generate_greedy_last(gen_batch, n, olp) ==
    LET len == Len(gen_batch)
        sampling_gen_batch_output ==
            generate_sequences(gen_batch, n - 1,
                [j \in 1..(len * (n - 1)) |->
                    olp[((j - 1) \div (n - 1)) * n + ((j - 1) % (n - 1)) + 1]])
        greedy_gen_batch_output == generate_greedy(gen_batch, [i \in 1..len |-> olp[i * n]])
    IN  Flatten([i \in 1..len |->
            SubSeq(sampling_gen_batch_output, (i - 1) * (n - 1) + 1, i * (n - 1))
                \o SubSeq(greedy_gen_batch_output, i, i)])

\* the remax branch of the generation: n_samples - 1 stochastic rollouts per prompt, then
\* one greedy rollout per prompt, assembled prompt by prompt with the greedy one first;
\* olp gives the old_log_probs of the rows of the assembled output
remax_generate(gen_batch, n, olp) ==
    LET len == Len(gen_batch)
        sampling_gen_batch_output ==
            generate_sequences(gen_batch, n - 1,
                [j \in 1..(len * (n - 1)) |->
                    olp[((j - 1) \div (n - 1)) * n + ((j - 1) % (n - 1)) + 2]])
        greedy_gen_batch_output ==
            generate_greedy(gen_batch, [i \in 1..len |-> olp[(i - 1) * n + 1]])
    IN  Flatten([i \in 1..len |->
            SubSeq(greedy_gen_batch_output, i, i)
                \o SubSeq(sampling_gen_batch_output, (i - 1) * (n - 1) + 1, i * (n - 1))])

\* adds or replaces one tensor of a batch (batch.batch[key] = values / union)
WithField(data, key, values) ==
    [j \in 1..Len(data) |->
        [f \in (DOMAIN data[j]) \cup {key} |-> IF f = key THEN values[j] ELSE data[j][f]]]

(***************************************************************************)
(* KL penalty                                                              *)
(***************************************************************************)
NotImplementedError == "NotImplementedError"

\* no exception raised
NoError == "NoError"

NoMetrics == [kl |-> Rat(0), kl_coeff |-> Rat(0)]

\* the types for which kl_penalty returns a tensor
KlPenaltyTypes == {"kl", "abs", "mse"}

\* kl_penalty whose 'mse' branch lacks the factor 0.5 and whose 'full' branch returns d
kl_penalty_mse_no_half(logprob, ref_logprob, kind) ==
    LET d == logprob - ref_logprob
    IN  CASE kind = "kl" -> Rat(d)
          [] kind = "abs" -> Rat(Abs(d))
          [] kind = "mse" -> Rat(d * d)
          [] kind = "full" -> NotImplementedError
          [] OTHER -> NotImplementedError

\* core_algos.kl_penalty on one token
kl_penalty(logprob, ref_logprob, kind) ==
    LET d == logprob - ref_logprob
    IN  CASE kind = "kl" -> Rat(d)
          [] kind = "abs" -> Rat(Abs(d))
          [] kind = "mse" -> Norm(<<d * d, 2>>)
          [] kind = "full" -> NotImplementedError
          [] OTHER -> NotImplementedError

\* whether kl_penalty(., ., kind) raises
kl_penalty_raises(kind) == kind \notin KlPenaltyTypes

\* attention_mask[:, -response_length:] of one row
response_mask(row) ==
    LET rl == Len(row.responses)
        al == Len(row.attention_mask)
    IN  SubSeq(row.attention_mask, al - rl + 1, al)

\* verl_F.masked_mean over the last axis of one row
masked_mean(values, mask) ==
    RDiv(RSumSeq([t \in 1..Len(values) |-> RMul(values[t], Rat(mask[t]))]), Rat(SumSeq(mask)))

\* apply_kl_penalty that updates the controller before it reads beta
apply_kl_penalty_update_first(data, ctrl, kind) ==
    LET batch_size == Len(data)
        has_ref == "ref_log_prob" \in DOMAIN data[1]
        kld == [j \in 1..batch_size |->
                  LET m == response_mask(data[j])
                  IN  [t \in 1..Len(m) |->
                        IF has_ref
                        THEN RMul(kl_penalty(data[j].old_log_probs[t], data[j].ref_log_prob[t], kind),
                                  Rat(m[t]))
                        ELSE Rat(0)]]
        current_kl ==
            RDiv(RSumSeq([j \in 1..batch_size |-> masked_mean(kld[j], response_mask(data[j]))]),
                 Rat(batch_size))
        updated == update(ctrl, current_kl, batch_size)
        beta == IF has_ref THEN updated.value ELSE Rat(0)
        token_level_rewards ==
            [j \in 1..batch_size |->
                [t \in 1..Len(kld[j]) |->
                    RSub(data[j].token_level_scores[t], RMul(beta, kld[j][t]))]]
    IN  IF has_ref /\ kl_penalty_raises(kind)
        THEN [error |-> NotImplementedError, data |-> data, kl_ctrl |-> ctrl,
              metrics |-> NoMetrics]
        ELSE [error |-> NoError,
              data |-> WithField(data, "token_level_rewards", token_level_rewards),
              kl_ctrl |-> updated,
              metrics |-> [kl |-> current_kl, kl_coeff |-> beta]]

\* apply_kl_penalty: the batch with token_level_rewards, the controller after its
\* update and the two metrics; the exception of kl_penalty leaves the function at
\* its first statement that uses the reference log-probabilities
apply_kl_penalty(data, ctrl, kind) ==
    LET batch_size == Len(data)
        has_ref == "ref_log_prob" \in DOMAIN data[1]
        kld == [j \in 1..batch_size |->
                  LET m == response_mask(data[j])
                  IN  [t \in 1..Len(m) |->
                        IF has_ref
                        THEN RMul(kl_penalty(data[j].old_log_probs[t], data[j].ref_log_prob[t], kind),
                                  Rat(m[t]))
                        ELSE Rat(0)]]
        beta == IF has_ref THEN ctrl.value ELSE Rat(0)
        token_level_rewards ==
            [j \in 1..batch_size |->
                [t \in 1..Len(kld[j]) |->
                    RSub(data[j].token_level_scores[t], RMul(beta, kld[j][t]))]]
        current_kl ==
            RDiv(RSumSeq([j \in 1..batch_size |-> masked_mean(kld[j], response_mask(data[j]))]),
                 Rat(batch_size))
    IN  IF has_ref /\ kl_penalty_raises(kind)
        THEN [error |-> NotImplementedError, data |-> data, kl_ctrl |-> ctrl,
              metrics |-> NoMetrics]
        ELSE [error |-> NoError,
              data |-> WithField(data, "token_level_rewards", token_level_rewards),
              kl_ctrl |-> update(ctrl, current_kl, batch_size),
              metrics |-> [kl |-> current_kl, kl_coeff |-> beta]]

(***************************************************************************)
(* RayPRIMETrainer.fit                                                     *)
(***************************************************************************)
Init ==
    /\ cfg \in Configs
    /\ pc = "epoch_loop"
    /\ epoch = 0
    /\ loader_left = 0
    /\ next_prompt = 1
    /\ buffer = <<>>
    /\ buffer_batch = <<>>
    /\ newbatch = <<>>
    /\ roll_batch = <<>>
    /\ valid_batch = <<>>
    /\ batch = <<>>
    /\ kl_ctrl = InitKlCtrl(cfg)
    /\ global_steps = 0
    /\ metrics = NoMetrics
    /\ checkpoints = {}
    /\ log = <<>>
    /\ kl_updates = 0
    /\ completed = 0
    /\ args = <<>>

\* for epoch in range(total_epochs): start_new_epoch()
EpochLoop ==
    /\ pc = "epoch_loop"
    /\ IF epoch < total_epochs
       THEN /\ loader_left' = LoaderLen
            /\ pc' = "step_start"
       ELSE /\ loader_left' = loader_left
            /\ pc' = "done"
    /\ UNCHANGED <<cfg, epoch, next_prompt, buffer, buffer_batch, newbatch, roll_batch,
                   valid_batch, batch, kl_ctrl, global_steps, metrics, checkpoints, log,
                   kl_updates, completed, args>>

\* head of `while True`: reset the step's locals, drain the overflow buffer
StepStart ==
    /\ pc = "step_start"
    /\ valid_batch' = <<>>
    /\ IF Len(buffer) > 0
       THEN LET got == get_from_buffer(buffer, train_batch_size)
            IN  /\ buffer_batch' = got.samples
                /\ buffer' = got.rest
                /\ log' = <<"get_from_buffer">>
       ELSE /\ buffer_batch' = <<>>
            /\ buffer' = buffer
            /\ log' = <<>>
    /\ metrics' = NoMetrics
    /\ pc' = "collect"
    /\ UNCHANGED <<cfg, epoch, loader_left, next_prompt, newbatch, roll_batch, batch, kl_ctrl,
                   global_steps, checkpoints, kl_updates, completed, args>>

\* inner while, condition true and get_next_batch yields a batch of prompts
GetNextBatch ==
    /\ pc = "collect"
    /\ Len(valid_batch) < Target
    /\ loader_left > 0
    /\ loader_left' = loader_left - 1
    /\ newbatch' = [i \in 1..LoaderBatch |-> PromptRow(next_prompt + i - 1)]
    /\ next_prompt' = next_prompt + LoaderBatch
    /\ pc' = "generate"
    /\ UNCHANGED <<cfg, epoch, buffer, buffer_batch, roll_batch, valid_batch, batch, kl_ctrl,
                   global_steps, metrics, checkpoints, log, kl_updates, completed, args>>

\* inner while, condition true and get_next_batch raises StopIteration: break
StopIteration ==
    /\ pc = "collect"
    /\ Len(valid_batch) < Target
    /\ loader_left = 0
    /\ pc' = "check"
    /\ log' = Append(log, "StopIteration")
    /\ UNCHANGED <<cfg, epoch, loader_left, next_prompt, buffer, buffer_batch, newbatch,
                   roll_batch, valid_batch, batch, kl_ctrl, global_steps, metrics,
                   checkpoints, kl_updates, completed, args>>

\* inner while, condition false
CollectDone ==
    /\ pc = "collect"
    /\ ~(Len(valid_batch) < Target)
    /\ pc' = "check"
    /\ UNCHANGED <<cfg, epoch, loader_left, next_prompt, buffer, buffer_batch, newbatch,
                   roll_batch, valid_batch, batch, kl_ctrl, global_steps, metrics,
                   checkpoints, log, kl_updates, completed, args>>

\* prepend the drained prompts, dispatch the generation, assemble roll_batch
Generate ==
    /\ pc = "generate"
    /\ LET nb == IF Len(buffer_batch) > 0 THEN concat(<<buffer_batch, newbatch>>) ELSE newbatch
           gen_batch == select(nb, PromptKeys)
       IN  /\ newbatch' = nb
           /\ \E olp \in RowVectors(Len(nb) * n_samples, OldLogProbs) :
                 roll_batch' = IF cfg.adv_estimator = "remax"
                               THEN remax_generate(gen_batch, n_samples, olp)
                               ELSE generate_sequences(gen_batch, n_samples, olp)
    /\ buffer_batch' = <<>>
    /\ log' = Append(log, "generate_sequences")
    /\ pc' = "verify"
    /\ UNCHANGED <<cfg, epoch, loader_left, next_prompt, buffer, valid_batch, batch, kl_ctrl,
                   global_steps, metrics, checkpoints, kl_updates, completed, args>>

\* reward_fn.verify scores every rollout of the round (batch['acc'])
Verify ==
    /\ pc = "verify"
    /\ \E acc \in AccVectors(Len(roll_batch), n_samples) :
          roll_batch' = WithField(roll_batch, "acc", acc)
    /\ log' = Append(log, "verify")
    /\ pc' = "filter"
    /\ UNCHANGED <<cfg, epoch, loader_left, next_prompt, buffer, buffer_batch, newbatch,
                   valid_batch, batch, kl_ctrl, global_steps, metrics, checkpoints,
                   kl_updates, completed, args>>

\* the accuracy filter, if enabled, and the concatenation onto valid_batch.
\* newbatch and roll_batch are dead afterwards (both are assigned again before their
\* next read) and are dropped from the state here.
FilterConcat ==
    /\ pc = "filter"
    /\ LET acc == [j \in 1..Len(roll_batch) |-> roll_batch[j].acc]
           kept == IF cfg.filter_accuracy THEN filter(acc, roll_batch, n_samples)
                   ELSE roll_batch
       IN  valid_batch' = IF Len(valid_batch) = 0 THEN kept
                          ELSE concat(<<valid_batch, kept>>)
    /\ roll_batch' = <<>>
    /\ newbatch' = <<>>
    /\ log' = IF cfg.filter_accuracy THEN Append(log, "filter") ELSE log
    /\ pc' = "collect"
    /\ UNCHANGED <<cfg, epoch, loader_left, next_prompt, buffer, buffer_batch,
                   batch, kl_ctrl, global_steps, metrics, checkpoints, kl_updates,
                   completed, args>>

\* `if len(valid_batch) < batch_size * n_samples: break`
Abandon ==
    /\ pc = "check"
    /\ Len(valid_batch) < Target
    /\ pc' = "break"
    /\ UNCHANGED <<cfg, epoch, loader_left, next_prompt, buffer, buffer_batch, newbatch,
                   roll_batch, valid_batch, batch, kl_ctrl, global_steps, metrics,
                   checkpoints, log, kl_updates, completed, args>>

\* the break counting the abandoned step
Break_counts_step ==
    /\ pc = "break"
    /\ epoch' = epoch + 1
    /\ pc' = "epoch_loop"
    /\ valid_batch' = <<>>
    /\ buffer_batch' = <<>>
    /\ log' = <<>>
    /\ global_steps' = global_steps + 1
    /\ UNCHANGED <<cfg, loader_left, next_prompt, buffer, newbatch,
                   roll_batch, batch, kl_ctrl, metrics,
                   checkpoints, kl_updates, completed, args>>

\* the break leaves `while True`; the for loop takes the next epoch.  The locals of
\* the abandoned step are dead (assigned again before their next read).
Break ==
    /\ pc = "break"
    /\ epoch' = epoch + 1
    /\ pc' = "epoch_loop"
    /\ valid_batch' = <<>>
    /\ buffer_batch' = <<>>
    /\ log' = <<>>
    /\ UNCHANGED <<cfg, loader_left, next_prompt, buffer, newbatch,
                   roll_batch, batch, kl_ctrl, global_steps, metrics,
                   checkpoints, kl_updates, completed, args>>

\* enough rollouts: cut the overflow into the buffer, `batch = valid_batch`
CheckFull ==
    /\ pc = "check"
    /\ ~(Len(valid_batch) < Target)
    /\ IF Len(valid_batch) > Target
       THEN LET cut == add_to_buffer(valid_batch, train_batch_size, n_samples)
            IN  /\ valid_batch' = cut.batch
                /\ batch' = cut.batch
                /\ buffer' = IF Len(buffer) = 0 THEN cut.buffer_batch
                             ELSE concat(<<buffer, cut.buffer_batch>>)
                /\ log' = Append(log, "add_to_buffer")
       ELSE /\ valid_batch' = valid_batch
            /\ batch' = valid_batch
            /\ buffer' = buffer
            /\ log' = log
    /\ pc' = "ref"
    /\ UNCHANGED <<cfg, epoch, loader_left, next_prompt, buffer_batch, newbatch,
                   roll_batch, kl_ctrl, global_steps, metrics, checkpoints, kl_updates, completed, args>>

\* ref_policy_wg.compute_ref_log_prob, if a reference policy is used
ComputeRefLogProb ==
    /\ pc = "ref"
    /\ IF cfg.use_reference_policy
       THEN /\ \E ref \in RowVectors(Len(batch), RefLogProbs) :
                  batch' = WithField(batch, "ref_log_prob", [j \in 1..Len(batch) |-> <<ref[j]>>])
            /\ log' = Append(log, "compute_ref_log_prob")
       ELSE UNCHANGED <<batch, log>>
    /\ pc' = "rm"
    /\ UNCHANGED <<cfg, epoch, loader_left, next_prompt, buffer, buffer_batch, newbatch,
                   roll_batch, valid_batch, kl_ctrl, global_steps, metrics, checkpoints,
                   kl_updates, completed, args>>

\* rm_wg.compute_rm_score, if a reward model is used
ComputeRmScore ==
    /\ pc = "rm"
    /\ IF cfg.use_rm
       THEN /\ \E rm \in RowVectors(Len(batch), RmScores) :
                  batch' = WithField(batch, "rm_scores", [j \in 1..Len(batch) |-> <<Rat(rm[j])>>])
            /\ log' = Append(log, "compute_rm_score")
       ELSE UNCHANGED <<batch, log>>
    /\ pc' = "values"
    /\ UNCHANGED <<cfg, epoch, loader_left, next_prompt, buffer, buffer_batch, newbatch,
                   roll_batch, valid_batch, kl_ctrl, global_steps, metrics, checkpoints,
                   kl_updates, completed, args>>

\* critic_wg.compute_values, if a critic is used
ComputeValues ==
    /\ pc = "values"
    /\ IF use_critic
       THEN /\ \E v \in RowVectors(Len(batch), Values) :
                  batch' = WithField(batch, "values", [j \in 1..Len(batch) |-> <<Rat(v[j])>>])
            /\ log' = Append(log, "compute_values")
       ELSE UNCHANGED <<batch, log>>
    /\ pc' = "reward"
    /\ UNCHANGED <<cfg, epoch, loader_left, next_prompt, buffer, buffer_batch, newbatch,
                   roll_batch, valid_batch, kl_ctrl, global_steps, metrics, checkpoints,
                   kl_updates, completed, args>>

\* reward_fn(batch): the combined reward becomes token_level_scores; the verifier
\* reward of a rollout is its accuracy
RewardFn ==
    /\ pc = "reward"
    /\ LET all == [j \in 1..Len(batch) |-> <<Rat(batch[j].acc)>>]
       IN  batch' = WithField(WithField(batch, "token_level_scores", all), "gt_scores", all)
    /\ log' = Append(log, "reward_fn")
    /\ pc' = "kl"
    /\ UNCHANGED <<cfg, epoch, loader_left, next_prompt, buffer, buffer_batch, newbatch,
                   roll_batch, valid_batch, kl_ctrl, global_steps, metrics, checkpoints,
                   kl_updates, completed, args>>

\* batch, kl_metrics = apply_kl_penalty(batch, kl_ctrl=self.kl_ctrl, ...)
ApplyKlPenalty ==
    /\ pc = "kl"
    /\ LET r == apply_kl_penalty(batch, kl_ctrl, cfg.kl_penalty)
       IN  /\ batch' = r.data
           /\ kl_ctrl' = r.kl_ctrl
           /\ metrics' = r.metrics
    /\ kl_updates' = kl_updates + 1
    /\ log' = Append(log, "apply_kl_penalty")
    /\ pc' = "adv"
    /\ UNCHANGED <<cfg, epoch, loader_left, next_prompt, buffer, buffer_batch, newbatch,
                   roll_batch, valid_batch, global_steps, checkpoints, completed, args>>

\* compute_advantage that forgets to write 'returns'
ComputeAdvantage_no_returns ==
    /\ pc = "adv"
    /\ LET tag == [j \in 1..Len(batch) |-> <<cfg.adv_estimator>>]
       IN  batch' = WithField(batch, "advantages", tag)
    /\ log' = Append(log, "compute_advantage")
    /\ pc' = "update_critic"
    /\ UNCHANGED <<cfg, epoch, loader_left, next_prompt, buffer, buffer_batch, newbatch,
                   roll_batch, valid_batch, kl_ctrl, global_steps, metrics, checkpoints,
                   kl_updates, completed, args>>

\* compute_advantage writes 'advantages' and 'returns' (their values are not tracked here)
ComputeAdvantage ==
    /\ pc = "adv"
    /\ LET tag == [j \in 1..Len(batch) |-> <<cfg.adv_estimator>>]
       IN  batch' = WithField(WithField(batch, "advantages", tag), "returns", tag)
    /\ log' = Append(log, "compute_advantage")
    /\ pc' = "update_critic"
    /\ UNCHANGED <<cfg, epoch, loader_left, next_prompt, buffer, buffer_batch, newbatch,
                   roll_batch, valid_batch, kl_ctrl, global_steps, metrics, checkpoints,
                   kl_updates, completed, args>>

\* critic_wg.update_critic, if a critic is used
UpdateCritic ==
    /\ pc = "update_critic"
    /\ log' = IF use_critic THEN Append(log, "update_critic") ELSE log
    /\ pc' = "update_actor"
    /\ UNCHANGED <<cfg, epoch, loader_left, next_prompt, buffer, buffer_batch, newbatch,
                   roll_batch, valid_batch, batch, kl_ctrl, global_steps, metrics,
                   checkpoints, kl_updates, completed, args>>

\* the warmup test, off by one
PastWarmup_strict == cfg.critic_warmup < global_steps

\* the critic warmup test of fit
PastWarmup == cfg.critic_warmup <= global_steps

\* actor_rollout_wg.update_actor, once the critic warmup is over
UpdateActor ==
    /\ pc = "update_actor"
    /\ log' = IF PastWarmup THEN Append(log, "update_actor") ELSE log
    /\ pc' = "validate"
    /\ UNCHANGED <<cfg, epoch, loader_left, next_prompt, buffer, buffer_batch, newbatch,
                   roll_batch, valid_batch, batch, kl_ctrl, global_steps, metrics,
                   checkpoints, kl_updates, completed, args>>

\* the validation test of fit
ValidationDue == cfg.val_reward_fn /\ (global_steps + 1) % cfg.test_freq = 0

\* self._validate(), when due, and logger.log(data=metrics, step=self.global_steps)
ValidateLog ==
    /\ pc = "validate"
    /\ log' = IF ValidationDue THEN log \o <<"_validate", "logger.log">>
              ELSE Append(log, "logger.log")
    /\ pc' = "save"
    /\ UNCHANGED <<cfg, epoch, loader_left, next_prompt, buffer, buffer_batch, newbatch,
                   roll_batch, valid_batch, batch, kl_ctrl, global_steps, metrics,
                   checkpoints, kl_updates, completed, args>>

\* the checkpoint test taken on the step counter itself
SaveDue_at_multiple == cfg.save_freq > 0 /\ global_steps % cfg.save_freq = 0

\* the checkpoint test of fit
SaveDue == cfg.save_freq > 0 /\ (global_steps + 1) % cfg.save_freq = 0

\* save_checkpoint of every role that checkpoints, under the key global_step_{global_steps}
Save ==
    /\ pc = "save"
    /\ IF SaveDue
       THEN /\ checkpoints' = checkpoints \cup {<<"actor", global_steps>>}
                \cup (IF use_critic THEN {<<"critic", global_steps>>} ELSE {})
                \cup (IF cfg.use_rm /\ cfg.rm_update # "none"
                      THEN {<<"reward", global_steps>>} ELSE {})
            /\ log' = Append(log, "save_checkpoint")
       ELSE UNCHANGED <<checkpoints, log>>
    /\ pc' = "step_end"
    /\ UNCHANGED <<cfg, epoch, loader_left, next_prompt, buffer, buffer_batch, newbatch,
                   roll_batch, valid_batch, batch, kl_ctrl, global_steps, metrics,
                   kl_updates, completed, args>>

\* the end of a step that also updates the KL controller
StepEnd_updates_kl ==
    /\ pc = "step_end"
    /\ global_steps' = global_steps + 1
    /\ pc' = "step_start"
    /\ valid_batch' = <<>>
    /\ batch' = <<>>
    /\ metrics' = NoMetrics
    /\ log' = <<>>
    /\ completed' = completed + 1
    /\ kl_updates' = kl_updates + 1
    /\ UNCHANGED <<cfg, epoch, loader_left, next_prompt, buffer, buffer_batch, newbatch,
                   roll_batch, kl_ctrl, checkpoints, args>>

\* self.global_steps += 1, back to the head of `while True`.  The locals of the
\* finished step are dead (assigned again before their next read).
StepEnd ==
    /\ pc = "step_end"
    /\ global_steps' = global_steps + 1
    /\ pc' = "step_start"
    /\ valid_batch' = <<>>
    /\ batch' = <<>>
    /\ metrics' = NoMetrics
    /\ log' = <<>>
    /\ completed' = completed + 1
    /\ UNCHANGED <<cfg, epoch, loader_left, next_prompt, buffer, buffer_batch, newbatch,
                   roll_batch, kl_ctrl, checkpoints, kl_updates, args>>

Next ==
    \/ EpochLoop
    \/ StepStart
    \/ GetNextBatch
    \/ StopIteration
    \/ CollectDone
    \/ Generate
    \/ Verify
    \/ FilterConcat
    \/ Abandon
    \/ Break
    \/ CheckFull
    \/ ComputeRefLogProb
    \/ ComputeRmScore
    \/ ComputeValues
    \/ RewardFn
    \/ ApplyKlPenalty
    \/ ComputeAdvantage
    \/ UpdateCritic
    \/ UpdateActor
    \/ ValidateLog
    \/ Save
    \/ StepEnd

Spec == Init /\ [][Next]_vars

(***************************************************************************)
(* Unit specification of AdaptiveKLController: controllers and inputs are  *)
(* drawn from small sets and update is applied up to MaxUnitSteps times.   *)
(***************************************************************************)
UnitKlValues == {<<0, 1>>, <<1, 10>>}
UnitKlTargets == {<<1, 10>>, <<1, 2>>}
UnitKlHorizons == {1, 4}
UnitCurrentKls == {<<-1, 10>>, <<1, 10>>, <<11, 100>>, <<1, 2>>}
UnitNSteps == {1, 8}

UnitKlArgs == {[current_kl |-> k, n_steps |-> n] : k \in UnitCurrentKls, n \in UnitNSteps}

InitKL ==
    /\ cfg = <<>>
    /\ pc = "unit_kl"
    /\ kl_ctrl \in {AdaptiveKLController(v, t, h) :
                        v \in UnitKlValues, t \in UnitKlTargets, h \in UnitKlHorizons}
    /\ args \in UnitKlArgs
    /\ kl_updates = 0
    /\ epoch = 0
    /\ loader_left = 0
    /\ next_prompt = 1
    /\ buffer = <<>>
    /\ buffer_batch = <<>>
    /\ newbatch = <<>>
    /\ roll_batch = <<>>
    /\ valid_batch = <<>>
    /\ batch = <<>>
    /\ global_steps = 0
    /\ metrics = NoMetrics
    /\ checkpoints = {}
    /\ log = <<>>
    /\ completed = 0

\* kl_ctrl.update(current_kl, n_steps) on the drawn inputs; the next inputs are drawn
UnitKlUpdate ==
    /\ pc = "unit_kl"
    /\ kl_updates < MaxUnitSteps
    /\ kl_ctrl' = AdaptiveUpdate(kl_ctrl, args.current_kl, args.n_steps)
    /\ args' \in UnitKlArgs
    /\ kl_updates' = kl_updates + 1
    /\ UNCHANGED <<cfg, pc, epoch, loader_left, next_prompt, buffer, buffer_batch, newbatch,
                   roll_batch, valid_batch, batch, global_steps, metrics, checkpoints,
                   log, completed>>

NextKL == UnitKlUpdate

SpecKL == InitKL /\ [][NextKL]_vars

(***************************************************************************)
(* Unit specification of the construction of the KL controller             *)
(* (core_algos.get_kl_controller and RayPRIMETrainer.__init__): a          *)
(* configuration is drawn and one of the two builders runs on it.          *)
(***************************************************************************)
\* self.kl_ctrl / kl_ctrl before it is assigned
Unset == [type |-> "unset"]

UnitCtlHorizons == {-1, 0, 1, 4}

\* type, kl_coef, target_kl, horizon: the kl_ctrl block the controller is built from
\* (config.critic.kl_ctrl for get_kl_controller, config.algorithm.kl_ctrl for __init__);
\* has_kl_ctrl, top_horizon: whether config.kl_ctrl exists, and config.kl_ctrl.horizon;
\* has_critic_kl_ctrl: whether config.critic.kl_ctrl exists (read by the assert message
\* of __init__); use_reference_policy: Role.RefPolicy in role_worker_mapping
UnitCtlConfigs ==
    [type : {"fixed", "adaptive", "linear"}, kl_coef : {<<1, 10>>}, target_kl : {<<1, 2>>},
     horizon : UnitCtlHorizons, has_kl_ctrl : BOOLEAN, top_horizon : UnitCtlHorizons,
     has_critic_kl_ctrl : BOOLEAN, use_reference_policy : BOOLEAN]

\* core_algos.get_kl_controller: the exception raised and the controller
get_kl_controller(config) ==
    CASE config.type = "fixed" ->
           [error |-> NoError, kl_ctrl |-> FixedKLController(config.kl_coef)]
      [] config.type = "adaptive" ->
           IF ~config.has_kl_ctrl
           THEN [error |-> "AttributeError", kl_ctrl |-> Unset]
           ELSE IF ~(config.top_horizon > 0)
           THEN [error |-> "AssertionError", kl_ctrl |-> Unset]
           ELSE [error |-> NoError,
                 kl_ctrl |-> AdaptiveKLController(config.kl_coef, config.target_kl, config.horizon)]
      [] OTHER -> [error |-> "ValueError", kl_ctrl |-> Unset]

\* the `define KL control` block of RayPRIMETrainer.__init__
TrainerKlCtrl(config) ==
    IF config.use_reference_policy
    THEN CASE config.type = "fixed" ->
                [error |-> NoError, kl_ctrl |-> FixedKLController(config.kl_coef)]
           [] config.type = "adaptive" ->
                IF ~(config.horizon > 0)
                THEN [error |-> IF config.has_critic_kl_ctrl THEN "AssertionError"
                                ELSE "AttributeError",
                      kl_ctrl |-> Unset]
                ELSE [error |-> NoError,
                      kl_ctrl |-> AdaptiveKLController(config.kl_coef, config.target_kl,
                                                       config.horizon)]
           [] OTHER -> [error |-> NotImplementedError, kl_ctrl |-> Unset]
    ELSE [error |-> NoError, kl_ctrl |-> FixedKLController(Rat(0))]

InitCtl ==
    /\ cfg \in UnitCtlConfigs
    /\ pc = "unit_ctl"
    /\ kl_ctrl = Unset
    /\ log = <<>>
    /\ args = <<>>
    /\ kl_updates = 0
    /\ epoch = 0
    /\ loader_left = 0
    /\ next_prompt = 1
    /\ buffer = <<>>
    /\ buffer_batch = <<>>
    /\ newbatch = <<>>
    /\ roll_batch = <<>>
    /\ valid_batch = <<>>
    /\ batch = <<>>
    /\ global_steps = 0
    /\ metrics = NoMetrics
    /\ checkpoints = {}
    /\ completed = 0

\* kl_ctrl = get_kl_controller(config)
UnitGetKlController ==
    /\ pc = "unit_ctl"
    /\ LET r == get_kl_controller(cfg)
       IN  /\ kl_ctrl' = r.kl_ctrl
           /\ log' = IF r.error = NoError THEN <<"get_kl_controller">>
                     ELSE <<"get_kl_controller", r.error>>
    /\ pc' = "unit_ctl_done"
    /\ UNCHANGED <<cfg, epoch, loader_left, next_prompt, buffer, buffer_batch, newbatch,
                   roll_batch, valid_batch, batch, global_steps, metrics, checkpoints,
                   kl_updates, completed, args>>

\* RayPRIMETrainer.__init__ up to self.kl_ctrl
UnitTrainerInit ==
    /\ pc = "unit_ctl"
    /\ LET r == TrainerKlCtrl(cfg)
       IN  /\ kl_ctrl' = r.kl_ctrl
           /\ log' = IF r.error = NoError THEN <<"__init__">> ELSE <<"__init__", r.error>>
    /\ pc' = "unit_ctl_done"
    /\ UNCHANGED <<cfg, epoch, loader_left, next_prompt, buffer, buffer_batch, newbatch,
                   roll_batch, valid_batch, batch, global_steps, metrics, checkpoints,
                   kl_updates, completed, args>>

NextCtl ==
    \/ UnitGetKlController
    \/ UnitTrainerInit

SpecCtl == InitCtl /\ [][NextCtl]_vars

(***************************************************************************)
(* Advantage estimators (core_algos.py) and compute_advantage.  A tensor   *)
(* of shape (bs, response_length) is a sequence of rows; an estimator      *)
(* yields [error, advantages, returns].                                    *)
(***************************************************************************)
\* whether the batch carries the tensor k
Has(data, k) == k \in DOMAIN data[1]

\* the tensor k of the batch
Tensor(data, k) == [b \in 1..Len(data) |-> data[b][k]] \o <<>>

\* a finite value that is not tracked (a quotient by a positive standard deviation)
Untracked == <<0, 0>>

\* the float that is not a number
NaN == <<1, 0>>

\* sum and product of two values either of which may be NaN or untracked
XAdd(a, b) ==
    IF a = NaN \/ b = NaN THEN NaN
    ELSE IF a = Untracked \/ b = Untracked THEN Untracked ELSE RAdd(a, b)

XMul(a, b) ==
    IF a = NaN \/ b = NaN THEN NaN
    ELSE IF a = Untracked \/ b = Untracked THEN Untracked ELSE RMul(a, b)

\* the loop `x[:, step] = r[:, step] + gamma * x[:, step + 1]` on one row, from position t
RECURSIVE DiscountedFrom(_, _, _)
DiscountedFrom(r, gamma, t) ==
    IF t > Len(r) THEN Rat(0)
    ELSE XAdd(r[t], XMul(gamma, DiscountedFrom(r, gamma, t + 1)))

\* the discounted reverse cumulative sum of every row
Discounted(rewards, gamma) ==
    [b \in 1..Len(rewards) |->
        [t \in 1..Len(rewards[b]) |-> DiscountedFrom(rewards[b], gamma, t)] \o <<>>] \o <<>>

\* elementwise sum of two tensors of the same shape
TensorAdd(x, y) ==
    [b \in 1..Len(x) |-> [t \in 1..Len(x[b]) |-> XAdd(x[b][t], y[b][t])] \o <<>>] \o <<>>

\* the values at the positions where the boolean mask is set, row after row
MaskedValues(values, mask) ==
    Flatten([b \in 1..Len(values) |->
                LET idx == SelectSeq([t \in 1..Len(mask[b]) |-> t], LAMBDA t : mask[b][t])
                IN  [i \in 1..Len(idx) |-> values[b][idx[i]]]])

\* values minus mean, NaN and untracked values left as they are
Centered(values, mean) ==
    [b \in 1..Len(values) |->
        [t \in 1..Len(values[b]) |->
            IF values[b][t][2] = 0 THEN values[b][t] ELSE RSub(values[b][t], mean)] \o <<>>]
        \o <<>>

\* the masked mean of the squares of a centered tensor
masked_var(centered, mask) ==
    LET Var(masked) ==
            RDiv(RSumSeq([i \in 1..Len(masked) |-> RMul(masked[i], masked[i])]),
                 Rat(Len(masked)))
    IN  Var(MaskedValues(centered, [b \in 1..Len(mask) |->
                                       [t \in 1..Len(mask[b]) |-> mask[b][t] # 0]]))

\* verl_F.masked_whiten(values, mask): values normalised to zero mean and unit variance
\* over the masked positions of the whole tensor.  The whitened tensor is
\* centered / sqrt(masked_var(centered, mask)), kept as the pair of centered (values
\* minus their masked mean) and mask.  No number whitens a tensor whose masked_var is 0
\* to unit variance; what the function returns then is left open.  A NaN among the
\* masked values, or an empty mask, makes every output NaN; an untracked masked value
\* makes every output untracked.
masked_whiten(values, mask) ==
    LET Whitened(masked) ==
            IF masked = <<>> \/ \E i \in 1..Len(masked) : masked[i] = NaN
            THEN [centered |-> [b \in 1..Len(values) |-> [t \in 1..Len(values[b]) |-> NaN]],
                  mask |-> mask]
            ELSE IF \E i \in 1..Len(masked) : masked[i] = Untracked
            THEN [centered |-> [b \in 1..Len(values) |->
                                   [t \in 1..Len(values[b]) |-> Untracked]],
                  mask |-> mask]
            ELSE [centered |-> Centered(values, RDiv(RSumSeq(masked), Rat(Len(masked)))),
                  mask |-> mask]
    IN  Whitened(MaskedValues(values, [b \in 1..Len(mask) |->
                                          [t \in 1..Len(mask[b]) |-> mask[b][t] # 0]]))

\* compute_reinforce_returns whose advantages are the returns, not whitened
compute_reinforce_returns_no_whiten(token_level_rewards, eos_mask, gamma) ==
    LET Result(returns) ==
            [error |-> NoError, advantages |-> [centered |-> returns, mask |-> eos_mask],
             returns |-> returns]
    IN  Result(Discounted(token_level_rewards, gamma))

\* core_algos.compute_reinforce_returns
compute_reinforce_returns(token_level_rewards, eos_mask, gamma) ==
    LET Result(returns) ==
            [error |-> NoError, advantages |-> masked_whiten(returns, eos_mask),
             returns |-> returns]
    IN  Result(Discounted(token_level_rewards, gamma))

\* the advantages of compute_gae_advantage_return before whitening, row r / v, from position t
RECURSIVE GaeFrom(_, _, _, _, _)
GaeFrom(r, v, gamma, lam, t) ==
    IF t > Len(r) THEN Rat(0)
    ELSE LET nextvalues == IF t < Len(r) THEN v[t + 1] ELSE Rat(0)
             delta == RSub(RAdd(r[t], RMul(gamma, nextvalues)), v[t])
             lastgaelam == GaeFrom(r, v, gamma, lam, t + 1)
         IN  RAdd(delta, RMul(RMul(gamma, lam), lastgaelam))

\* compute_gae_advantage_return whose loop does not carry lastgaelam to the next position
compute_gae_advantage_return_no_carry(token_level_rewards, values, eos_mask, gamma, lam) ==
    LET advantages ==
            [b \in 1..Len(token_level_rewards) |->
                [t \in 1..Len(token_level_rewards[b]) |->
                    LET nextvalues == IF t < Len(values[b]) THEN values[b][t + 1] ELSE Rat(0)
                    IN  RSub(RAdd(token_level_rewards[b][t], RMul(gamma, nextvalues)),
                             values[b][t])]]
    IN  [error |-> NoError, returns |-> TensorAdd(advantages, values)]

\* core_algos.compute_gae_advantage_return
compute_gae_advantage_return(token_level_rewards, values, eos_mask, gamma, lam) ==
    LET Result(advantages) ==
            [error |-> NoError, advantages |-> masked_whiten(advantages, eos_mask),
             returns |-> TensorAdd(advantages, values)]
    IN  Result([b \in 1..Len(token_level_rewards) |->
                   [t \in 1..Len(token_level_rewards[b]) |->
                       GaeFrom(token_level_rewards[b], values[b], gamma, lam, t)] \o <<>>]
               \o <<>>)

\* data.batch['attention_mask'][:, prompt_length:].sum(-1) of one row
valid_response_length(row) ==
    SumSeq(SubSeq(row.attention_mask, Len(row.prompts) + 1, Len(row.attention_mask)))

\* the mask with one True per row, at index valid_response_length - 1 (python index
\* -1 is the last position)
LastTokenMask(row) ==
    LET n == Len(row.responses)
        vrl == valid_response_length(row)
        pos == IF vrl = 0 THEN n ELSE vrl
    IN  [t \in 1..n |-> t = pos]

\* eos_mask.bool() of one row
EosMask(row) == [t \in 1..Len(row.responses) |-> response_mask(row)[t] # 0]

\* the tensors of the batch that the group estimators treat as reward sources
RewardSources(data) == {k \in {"rm_scores", "gt_scores"} : Has(data, k)}

\* reward_mask of one row for source k; whole: the source is masked to the last valid token
RewardMask(row, k, whole) ==
    IF k = "gt_scores" \/ whole THEN LastTokenMask(row) ELSE EosMask(row)

\* reward_tensor = v.clone(); reward_tensor *= reward_weight; reward_tensor[~reward_mask] = 0
Weighted(data, k, weight, whole) ==
    [b \in 1..Len(data) |->
        LET mask == RewardMask(data[b], k, whole)
        IN  [t \in 1..Len(mask) |-> IF mask[t] THEN Fl(RMul(data[b][k][t], weight)) ELSE Rat(0)]
            \o <<>>] \o <<>>

\* reward_tensor[pos][reward_mask[pos]].mean() (rows have at least one masked position)
MaskedRowMean(row_rewards, mask) ==
    LET idx == SelectSeq([t \in 1..Len(mask) |-> t], LAMBDA t : mask[t])
    IN  Fl(RDiv(FlSum([i \in 1..Len(idx) |-> row_rewards[idx[i]]]), Rat(Len(idx))))

\* the group loop of masked_rloo (prime_core_algos) and of compute_rloo_returns, which
\* is the same text: reward_tensor is zero outside mask_tensor; baseline[g] is
\* cur_reward_baseline of group g; n_samples / (n_samples - 1) is a python float that
\* the multiplication takes as a float32
masked_rloo(reward_tensor, mask_tensor, n) ==
    LET baseline ==
            [g \in 1..(Len(reward_tensor) \div n) |->
                LET cur_rewards_mean ==
                        [i \in 1..n |-> MaskedRowMean(reward_tensor[(g - 1) * n + i],
                                                      mask_tensor[(g - 1) * n + i])]
                    cur_rewards_sum == FlSum(cur_rewards_mean)
                IN  Fl(RDiv(cur_rewards_sum, Rat(n - 1)))] \o <<>>
        scale == Fl(RDiv(Rat(n), Rat(n - 1))) \o <<>>
    IN  [b \in 1..Len(reward_tensor) |->
            [t \in 1..Len(mask_tensor[b]) |->
                IF mask_tensor[b][t]
                THEN Fl(RSub(Fl(RMul(reward_tensor[b][t], scale)), baseline[((b - 1) \div n) + 1]))
                ELSE reward_tensor[b][t]] \o <<>>] \o <<>>

\* (x - cur_rewards_mean) / (cur_rewards_std + 1e-6) for a masked reward x of a group
\* whose masked rewards are `group`: the standard deviation of a single value is NaN
\* (Bessel's correction divides by zero); it is 0 when every reward equals the mean, and
\* the quotient is then 0; otherwise the quotient is a finite value that is not tracked
GroupNormalised(x, group) ==
    IF Len(group) = 1 THEN NaN
    ELSE LET Quotient(cur_rewards_mean) ==
                 IF \A i \in 1..Len(group) : group[i] = cur_rewards_mean THEN Rat(0)
                 ELSE Untracked
         IN  Quotient(Fl(RDiv(FlSum(group), Rat(Len(group)))))

\* the group loop of compute_grpo_returns on the weighted, masked rewards of source k
GrpoCorrected(data, k, rewards, whole, n) ==
    [b \in 1..Len(data) |->
        LET start_pos == ((b - 1) \div n) * n
            mask == RewardMask(data[b], k, whole)
        IN  [t \in 1..Len(mask) |->
                IF mask[t]
                THEN GroupNormalised(
                         rewards[b][t],
                         MaskedValues(SubSeq(rewards, start_pos + 1, start_pos + n),
                                      [i \in 1..n |-> RewardMask(data[start_pos + i], k, whole)]))
                ELSE rewards[b][t]] \o <<>>] \o <<>>

\* the group loop of compute_rloo_returns on the weighted, masked rewards of source k
RlooCorrected(data, k, rewards, whole, n) ==
    masked_rloo(rewards, [b \in 1..Len(data) |-> RewardMask(data[b], k, whole) \o <<>>] \o <<>>,
                n)

\* the group loop of compute_remax_returns with the baseline of the first group for
\* every group
RemaxCorrected_first_group(data, k, rewards, whole, n) ==
    [b \in 1..Len(data) |->
        LET cur_reward_baseline ==
                MaskedRowMean(rewards[1], RewardMask(data[1], k, whole))
            mask == RewardMask(data[b], k, whole)
        IN  [t \in 1..Len(mask) |->
                IF mask[t] THEN Fl(RSub(rewards[b][t], cur_reward_baseline))
                ELSE rewards[b][t]] \o <<>>] \o <<>>

\* the group loop of compute_remax_returns: the baseline is the first row of the group
RemaxCorrected(data, k, rewards, whole, n) ==
    [b \in 1..Len(data) |->
        LET start_pos == ((b - 1) \div n) * n
            cur_reward_baseline ==
                MaskedRowMean(rewards[start_pos + 1], RewardMask(data[start_pos + 1], k, whole))
            mask == RewardMask(data[b], k, whole)
        IN  [t \in 1..Len(mask) |->
                IF mask[t] THEN Fl(RSub(rewards[b][t], cur_reward_baseline))
                ELSE rewards[b][t]] \o <<>>] \o <<>>

\* gamma and reward_weight of source k
SourceGamma(k, config) ==
    IF k = "rm_scores" THEN config.reward_model_gamma ELSE config.verifier_gamma

SourceWeight(k, config) ==
    IF k = "rm_scores" THEN config.rm_coef ELSE config.reward_coef

\* the group loop of the estimator named baseline on the weighted rewards of source k
Corrected(baseline, data, k, rewards, whole, n) ==
    CASE baseline = "rloo" -> RlooCorrected(data, k, rewards, whole, n)
      [] baseline = "grpo" -> GrpoCorrected(data, k, rewards, whole, n)
      [] baseline = "remax" -> RemaxCorrected(data, k, rewards, whole, n)
      [] baseline = "remax_first_group" -> RemaxCorrected_first_group(data, k, rewards, whole, n)

\* the discounted, baseline-corrected rewards of source k
SourceReturns(data, k, n, config, whole, baseline) ==
    Discounted(Corrected(baseline, data, k, Weighted(data, k, SourceWeight(k, config), whole),
                         whole, n),
               SourceGamma(k, config))

\* the common frame of the group estimators: loop over the reward tensors of the batch,
\* returns = sum(discount_rewards), advantages = returns.clone()
GroupReturns(data, n, config, whole_rm, baseline) ==
    LET sources == RewardSources(data)
        reads_prompts == "gt_scores" \in sources \/ ("rm_scores" \in sources /\ whole_rm)
    IN  IF reads_prompts /\ ~Has(data, "prompts")
        THEN [error |-> "KeyError", returns |-> <<>>]
        ELSE IF sources = {}
        THEN [error |-> "AttributeError", returns |-> <<>>]
        ELSE IF sources = {"rm_scores", "gt_scores"}
        THEN [error |-> NoError,
              returns |-> TensorAdd(SourceReturns(data, "rm_scores", n, config, whole_rm, baseline),
                                    SourceReturns(data, "gt_scores", n, config, TRUE, baseline))]
        ELSE LET k == CHOOSE x \in sources : TRUE
             IN  [error |-> NoError,
                  returns |-> SourceReturns(data, k, n, config, k = "gt_scores" \/ whole_rm,
                                            baseline)]

\* advantages = returns.clone(); advantages = verl_F.masked_whiten(advantages, eos_mask)
WhitenedReturns(r, eos_mask) ==
    IF r.error # NoError THEN r
    ELSE [error |-> NoError, advantages |-> masked_whiten(r.returns, eos_mask),
          returns |-> r.returns]

\* core_algos.compute_rloo_returns
compute_rloo_returns(data, eos_mask, n, config) ==
    WhitenedReturns(GroupReturns(data, n, config, config.prime_granularity = "whole", "rloo"),
                    eos_mask)

\* compute_remax_returns that takes the greedy sample of the first group as the
\* baseline of every group
compute_remax_returns_first_group(data, eos_mask, n, config) ==
    WhitenedReturns(GroupReturns(data, n, config, FALSE, "remax_first_group"), eos_mask)

\* core_algos.compute_remax_returns
compute_remax_returns(data, eos_mask, n, config) ==
    WhitenedReturns(GroupReturns(data, n, config, FALSE, "remax"), eos_mask)

\* core_algos.compute_grpo_returns: the same frame with the group normalisation
compute_grpo_returns(data, eos_mask, n, config) ==
    WhitenedReturns(GroupReturns(data, n, config, config.prime_granularity = "whole", "grpo"),
                    eos_mask)

\* the loop `q[i, L - 1] = reward - q[i, :L - 1].sum(); q[i, L:] = 0` on one row of
\* valid length L (the first assignment only with prime_use_gt; python index -1 is the
\* last position, which the second assignment then clears)
ImplicitValues(q, reward, L, use_gt) ==
    [t \in 1..Len(q) |->
        IF t > L THEN Rat(0)
        ELSE IF use_gt /\ t = L THEN Fl(RSub(reward, FlSum(SubSeq(q, 1, L - 1))))
        ELSE q[t]] \o <<>>

\* the loop `lastgaelam = delta + lam * lastgaelam` on one row, from position t
RECURSIVE LambdaFrom(_, _, _)
LambdaFrom(q, lam, t) ==
    IF t > Len(q) THEN Rat(0)
    ELSE Fl(RAdd(q[t], Fl(RMul(lam, LambdaFrom(q, lam, t + 1)))))

\* the recurrence on every row
LambdaReturns(q, lam) ==
    [b \in 1..Len(q) |-> [t \in 1..Len(q[b]) |-> LambdaFrom(q[b], lam, t)] \o <<>>] \o <<>>

\* core_algos.compute_gae_value_returns: q is the implicit value tensor after the
\* overwrite, lastgaelam the recurrence on it, advantages its whitening, returns the row
\* sum of gt_scores at every position
compute_gae_value_returns(data, eos_mask, n, config, lam, gamma) ==
    IF ~Has(data, "gt_scores") \/ ~Has(data, "rm_scores") \/ ~Has(data, "prompts")
    THEN [error |-> "KeyError", returns |-> <<>>]
    ELSE LET Stacked(q, lastgaelam) ==
                 [error |-> NoError, q |-> q, lastgaelam |-> lastgaelam,
                  advantages |-> masked_whiten(lastgaelam, eos_mask),
                  returns |-> [b \in 1..Len(data) |->
                                  [t \in 1..Len(data[b].gt_scores) |->
                                      FlSum(data[b].gt_scores)]]]
             Result(q) == Stacked(q, LambdaReturns(q, lam))
         IN  Result([b \in 1..Len(data) |->
                        ImplicitValues(data[b].rm_scores,
                                       data[b].gt_scores[
                                           IF valid_response_length(data[b]) = 0
                                           THEN Len(data[b].gt_scores)
                                           ELSE valid_response_length(data[b])],
                                       valid_response_length(data[b]),
                                       config.prime_use_gt)] \o <<>>)

\* the estimator names init_workers and compute_advantage know
Estimators == {"gae", "rloo", "grpo", "reinforce", "remax", "gae_value"}

\* an init_workers that accepts every estimator name
init_workers_accepts_all(adv_estimator) == NoError

\* the estimator dispatch of RayPRIMETrainer.init_workers: the exception raised
init_workers(adv_estimator) ==
    IF adv_estimator = "gae" THEN NoError
    ELSE IF adv_estimator \in {"rloo", "remax", "grpo", "reinforce", "gae_value"} THEN NoError
    ELSE NotImplementedError

\* compute_advantage(data, gamma, lam, adv_estimator, config): the exception raised and the
\* batch, with 'advantages' and 'returns' written on success
compute_advantage(data, gamma, lam, adv_estimator, config) ==
    IF ~Has(data, "responses") \/ ~Has(data, "attention_mask")
       \/ (~Has(data, "token_level_rewards") /\ ~Has(data, "token_level_scores"))
    THEN [error |-> "KeyError", data |-> data]
    ELSE
    LET eos_mask == [b \in 1..Len(data) |-> response_mask(data[b])]
        token_level_rewards == IF Has(data, "token_level_rewards")
                               THEN Tensor(data, "token_level_rewards")
                               ELSE Tensor(data, "token_level_scores")
        n == config.n_samples
        \* data.batch['advantages'] = advantages; data.batch['returns'] = returns
        Written(r) ==
            IF r.error # NoError THEN [error |-> r.error, data |-> data]
            ELSE [error |-> NoError,
                  data |-> WithField(WithField(data, "advantages",
                                               [b \in 1..Len(data) |->
                                                   r.advantages.centered[b]]),
                                     "returns", r.returns)]
    IN  Written(
             CASE adv_estimator = "gae" ->
                    IF ~Has(data, "values") THEN [error |-> "KeyError", returns |-> <<>>]
                    ELSE compute_gae_advantage_return(token_level_rewards, Tensor(data, "values"),
                                                      eos_mask, gamma, lam)
               [] adv_estimator = "rloo" -> compute_rloo_returns(data, eos_mask, n, config)
               [] adv_estimator = "grpo" -> compute_grpo_returns(data, eos_mask, n, config)
               [] adv_estimator = "reinforce" ->
                    compute_reinforce_returns(token_level_rewards, eos_mask, gamma)
               [] adv_estimator = "remax" -> compute_remax_returns(data, eos_mask, n, config)
               [] adv_estimator = "gae_value" ->
                    compute_gae_value_returns(data, eos_mask, n, config, lam, gamma)
               [] OTHER -> [error |-> NotImplementedError, returns |-> <<>>])

(***************************************************************************)
(* Unit specification of the estimator dispatch: an estimator name and a   *)
(* batch carrying some of the optional tensors are drawn; init_workers     *)
(* and compute_advantage run on them.                                      *)
(***************************************************************************)
OptionalTensors == {"token_level_rewards", "values", "gt_scores", "rm_scores", "prompts"}

\* row b of a batch of two rollouts of one prompt (response_length 2; the second
\* rollout ends after one token) carrying the optional tensors `present`
UnitAdvRow(b, present) ==
    LET all == [responses |-> <<b, 0>>,
                attention_mask |-> <<1, 1, IF b = 1 THEN 1 ELSE 0>>,
                token_level_scores |-> <<Rat(0), Rat(b)>>,
                token_level_rewards |-> <<Rat(0), Rat(b - 1)>>,
                values |-> <<Rat(1), Rat(0)>>,
                gt_scores |-> <<Rat(2 - b), Rat(b - 1)>>,
                rm_scores |-> <<<<1, 2>>, <<b, 4>>>>,
                prompts |-> <<7>>]
    IN  [k \in {"responses", "attention_mask", "token_level_scores"} \cup present |-> all[k]]

UnitAdvConfigs ==
    [adv_estimator : Estimators \cup {"ppo"}, n_samples : {2}, gamma : {Rat(1)}, lam : {Rat(1)},
     reward_model_gamma : {Rat(1)}, verifier_gamma : {Rat(1)}, rm_coef : {<<1, 2>>},
     reward_coef : {Rat(5)}, prime_granularity : {"token", "whole"}, prime_use_gt : {TRUE}]

InitAdv ==
    /\ cfg \in UnitAdvConfigs
    /\ pc = "unit_adv"
    /\ \E present \in SUBSET OptionalTensors :
          batch = <<UnitAdvRow(1, present), UnitAdvRow(2, present)>>
    /\ log = <<>>
    /\ args = <<>>
    /\ kl_ctrl = Unset
    /\ kl_updates = 0
    /\ epoch = 0
    /\ loader_left = 0
    /\ next_prompt = 1
    /\ buffer = <<>>
    /\ buffer_batch = <<>>
    /\ newbatch = <<>>
    /\ roll_batch = <<>>
    /\ valid_batch = <<>>
    /\ global_steps = 0
    /\ metrics = NoMetrics
    /\ checkpoints = {}
    /\ completed = 0

\* the estimator dispatch of init_workers; on success the trainer is ready for fit
UnitInitWorkers ==
    /\ pc = "unit_adv"
    /\ LET e == init_workers(cfg.adv_estimator)
       IN  IF e = NoError
           THEN /\ pc' = "unit_adv_ready"
                /\ log' = Append(log, "init_workers")
           ELSE /\ pc' = "unit_adv_failed"
                /\ log' = log \o <<"init_workers", e>>
    /\ UNCHANGED <<cfg, epoch, loader_left, next_prompt, buffer, buffer_batch, newbatch,
                   roll_batch, valid_batch, batch, kl_ctrl, global_steps, metrics,
                   checkpoints, kl_updates, completed, args>>

\* compute_advantage on the batch, called directly or by a trainer whose workers are up
UnitComputeAdvantage ==
    /\ pc \in {"unit_adv", "unit_adv_ready"}
    /\ \E r \in {compute_advantage(batch, cfg.gamma, cfg.lam, cfg.adv_estimator, cfg)} :
           /\ batch' = r.data
           /\ log' = IF r.error = NoError THEN Append(log, "compute_advantage")
                     ELSE log \o <<"compute_advantage", r.error>>
           /\ pc' = IF r.error = NoError THEN "unit_adv_done" ELSE "unit_adv_failed"
    /\ UNCHANGED <<cfg, epoch, loader_left, next_prompt, buffer, buffer_batch, newbatch,
                   roll_batch, valid_batch, kl_ctrl, global_steps, metrics,
                   checkpoints, kl_updates, completed, args>>

NextAdv ==
    \/ UnitInitWorkers
    \/ UnitComputeAdvantage

SpecAdv == InitAdv /\ [][NextAdv]_vars

(***************************************************************************)
(* Unit specification of the KL penalty (core_algos.kl_penalty and         *)
(* apply_kl_penalty): a penalty type, two log-probabilities, a two-row     *)
(* batch and a controller are drawn; kl_penalty runs on the pair and       *)
(* apply_kl_penalty on the batch.                                          *)
(***************************************************************************)
UnitPenTypes == {"kl", "abs", "mse", "full", "low_var_kl"}
UnitLogProbs == {-3, -2, -1}

\* one row of the batch apply_kl_penalty reads; ref_log_prob only with a reference policy
UnitPenRow(olp, rlp, has_ref) ==
    IF has_ref
    THEN [responses |-> <<1>>, attention_mask |-> <<1, 1>>, token_level_scores |-> <<Rat(1)>>,
          old_log_probs |-> <<olp>>, ref_log_prob |-> <<rlp>>]
    ELSE [responses |-> <<1>>, attention_mask |-> <<1, 1>>, token_level_scores |-> <<Rat(1)>>,
          old_log_probs |-> <<olp>>]

InitPen ==
    /\ cfg \in [kl_penalty : UnitPenTypes, use_reference_policy : BOOLEAN]
    /\ pc = "unit_pen"
    /\ args \in [logprob : UnitLogProbs, ref_logprob : UnitLogProbs, error : {"unset"},
                 out : {Untracked}]
    /\ batch \in {<<UnitPenRow(args.logprob, args.ref_logprob, cfg.use_reference_policy),
                    UnitPenRow(o, r, cfg.use_reference_policy)>> :
                      o \in UnitLogProbs, r \in {-2}}
    /\ kl_ctrl \in {FixedKLController(<<1, 10>>), AdaptiveKLController(<<1, 10>>, <<1, 2>>, 4)}
    /\ kl_updates = 0
    /\ epoch = 0
    /\ loader_left = 0
    /\ next_prompt = 1
    /\ buffer = <<>>
    /\ buffer_batch = <<>>
    /\ newbatch = <<>>
    /\ roll_batch = <<>>
    /\ valid_batch = <<>>
    /\ global_steps = 0
    /\ metrics = NoMetrics
    /\ checkpoints = {}
    /\ log = <<>>
    /\ completed = 0

\* core_algos.kl_penalty(logprob, ref_logprob, kl_penalty) on the drawn pair
UnitKlPenalty ==
    /\ pc = "unit_pen"
    /\ args' = IF kl_penalty_raises(cfg.kl_penalty)
               THEN [args EXCEPT !.error = kl_penalty(args.logprob, args.ref_logprob,
                                                      cfg.kl_penalty)]
               ELSE [args EXCEPT !.error = NoError,
                                 !.out = kl_penalty(args.logprob, args.ref_logprob,
                                                    cfg.kl_penalty)]
    /\ pc' = "unit_pen_token"
    /\ UNCHANGED <<cfg, epoch, loader_left, next_prompt, buffer, buffer_batch, newbatch,
                   roll_batch, valid_batch, batch, kl_ctrl, global_steps, metrics,
                   checkpoints, log, kl_updates, completed>>

\* batch, kl_metrics = apply_kl_penalty(batch, kl_ctrl, kl_penalty) of a training step
UnitApplyKlPenalty ==
    /\ pc \in {"unit_pen", "unit_pen_token"}
    /\ LET r == apply_kl_penalty(batch, kl_ctrl, cfg.kl_penalty)
       IN  /\ batch' = r.data
           /\ kl_ctrl' = r.kl_ctrl
           /\ metrics' = r.metrics
           /\ kl_updates' = IF r.error = NoError THEN kl_updates + 1 ELSE kl_updates
           /\ log' = Append(log, IF r.error = NoError THEN "apply_kl_penalty" ELSE r.error)
           /\ pc' = IF r.error = NoError THEN "unit_pen_done" ELSE "unit_pen_failed"
    /\ UNCHANGED <<cfg, epoch, loader_left, next_prompt, buffer, buffer_batch, newbatch,
                   roll_batch, valid_batch, global_steps, checkpoints, completed, args>>

NextPen ==
    \/ UnitKlPenalty
    \/ UnitApplyKlPenalty

SpecPen == InitPen /\ [][NextPen]_vars

(***************************************************************************)
(* Unit specification of the token-level return estimators                 *)
(* (compute_reinforce_returns and compute_gae_advantage_return): a reward  *)
(* tensor of two rows, a value tensor, gamma and lam are drawn and each    *)
(* function runs once on them.                                             *)
(***************************************************************************)
MaxGenLen == 3

UnitRewards == {Rat(0), Rat(1), <<-1, 2>>}
UnitSecondRowRewards == {Rat(0), Rat(2)}
UnitValues == {Rat(0), <<1, 2>>}
UnitGammas == {Rat(1), <<1, 2>>}

\* the constant tensor of the shape of x
Full(x, v) == [b \in 1..Len(x) |-> [t \in 1..Len(x[b]) |-> v]]

\* returns not computed yet
NotComputed == <<>>

InitRet ==
    /\ cfg = <<>>
    /\ pc = "unit_ret"
    /\ \E gen_len \in 1..MaxGenLen :
         \E r1 \in [1..gen_len -> UnitRewards], r2 \in [1..gen_len -> UnitSecondRowRewards],
            v \in UnitValues, g \in UnitGammas, l \in UnitGammas :
            args = [token_level_rewards |-> <<r1, r2>>,
                    values |-> Full(<<r1, r2>>, v),
                    eos_mask |-> Full(<<r1, r2>>, 1),
                    gamma |-> g, lam |-> l,
                    reinforce |-> NotComputed, gae |-> NotComputed]
    /\ batch = <<>>
    /\ kl_ctrl = Unset
    /\ kl_updates = 0
    /\ epoch = 0
    /\ loader_left = 0
    /\ next_prompt = 1
    /\ buffer = <<>>
    /\ buffer_batch = <<>>
    /\ newbatch = <<>>
    /\ roll_batch = <<>>
    /\ valid_batch = <<>>
    /\ global_steps = 0
    /\ metrics = NoMetrics
    /\ checkpoints = {}
    /\ log = <<>>
    /\ completed = 0

\* advantages, returns = compute_reinforce_returns(token_level_rewards, eos_mask, gamma)
UnitReinforceReturns ==
    /\ pc = "unit_ret"
    /\ args.reinforce = NotComputed
    /\ args' = [args EXCEPT !.reinforce =
                    compute_reinforce_returns(args.token_level_rewards, args.eos_mask,
                                              args.gamma).returns]
    /\ log' = Append(log, "compute_reinforce_returns")
    /\ UNCHANGED <<cfg, pc, epoch, loader_left, next_prompt, buffer, buffer_batch, newbatch,
                   roll_batch, valid_batch, batch, kl_ctrl, global_steps, metrics,
                   checkpoints, kl_updates, completed>>

\* advantages, returns = compute_gae_advantage_return(token_level_rewards, values,
\* eos_mask, gamma, lam)
UnitGaeReturns ==
    /\ pc = "unit_ret"
    /\ args.gae = NotComputed
    /\ args' = [args EXCEPT !.gae =
                    compute_gae_advantage_return(args.token_level_rewards, args.values,
                                                 args.eos_mask, args.gamma, args.lam).returns]
    /\ log' = Append(log, "compute_gae_advantage_return")
    /\ UNCHANGED <<cfg, pc, epoch, loader_left, next_prompt, buffer, buffer_batch, newbatch,
                   roll_batch, valid_batch, batch, kl_ctrl, global_steps, metrics,
                   checkpoints, kl_updates, completed>>

NextRet ==
    \/ UnitReinforceReturns
    \/ UnitGaeReturns

SpecRet == InitRet /\ [][NextRet]_vars

(***************************************************************************)
(* Unit specification of the baseline corrections (masked_rloo of          *)
(* prime_core_algos, compute_rloo_returns and compute_remax_returns): a    *)
(* group size, the rewards of a first group, one reward shared by a second *)
(* group and the masked position of every sequence are drawn; each         *)
(* function runs once.                                                     *)
(***************************************************************************)
MaxSamples == 4

UnitRlooRewards == {Rat(0), Rat(1), Rat(5)}
UnitRewardCoefs == {Rat(1), Rat(5)}

\* reward_tensor[~mask_tensor] = 0
ZeroOutside(reward_tensor, mask_tensor) ==
    [b \in 1..Len(reward_tensor) |->
        [t \in 1..Len(reward_tensor[b]) |->
            IF mask_tensor[b][t] THEN reward_tensor[b][t] ELSE Rat(0)] \o <<>>] \o <<>>

\* the row of a batch whose verifier score r sits at its last valid response token p
UnitRlooRow(r, p) ==
    [prompts |-> <<7>>, responses |-> <<1, 1>>,
     attention_mask |-> <<1>> \o [t \in 1..2 |-> IF t <= p THEN 1 ELSE 0],
     gt_scores |-> [t \in 1..2 |-> IF t = p THEN r ELSE Rat(0)]]

InitRloo ==
    /\ \E n \in 2..MaxSamples, shift \in 0..1, y \in UnitRlooRewards :
         \E r \in [1..n -> UnitRlooRewards] :
            LET reward == [b \in 1..(2 * n) |-> IF b <= n THEN r[b] ELSE y]
                pos == [b \in 1..(2 * n) |-> 1 + ((b + shift) % 2)]
            IN  /\ args = [n_samples |-> n,
                           reward_tensor_original |->
                               [b \in 1..(2 * n) |->
                                   [t \in 1..2 |-> IF t = pos[b] THEN reward[b] ELSE Rat(3)]],
                           mask_tensor |-> [b \in 1..(2 * n) |-> [t \in 1..2 |-> t = pos[b]]],
                           out |-> NotComputed, returns |-> NotComputed,
                           remax |-> NotComputed]
                /\ batch = [b \in 1..(2 * n) |-> UnitRlooRow(reward[b], pos[b])]
    /\ cfg \in [reward_coef : UnitRewardCoefs, verifier_gamma : {Rat(1)},
                rm_coef : {Rat(1)}, reward_model_gamma : {Rat(1)},
                prime_granularity : {"token"}]
    /\ pc = "unit_rloo"
    /\ kl_ctrl = Unset
    /\ kl_updates = 0
    /\ epoch = 0
    /\ loader_left = 0
    /\ next_prompt = 1
    /\ buffer = <<>>
    /\ buffer_batch = <<>>
    /\ newbatch = <<>>
    /\ roll_batch = <<>>
    /\ valid_batch = <<>>
    /\ global_steps = 0
    /\ metrics = NoMetrics
    /\ checkpoints = {}
    /\ log = <<>>
    /\ completed = 0

\* masked_rloo(reward_tensor_original, mask_tensor)
UnitMaskedRloo ==
    /\ pc = "unit_rloo"
    /\ args.out = NotComputed
    /\ args' = [args EXCEPT !.out =
                    masked_rloo(ZeroOutside(args.reward_tensor_original, args.mask_tensor),
                                args.mask_tensor, args.n_samples)]
    /\ log' = Append(log, "masked_rloo")
    /\ UNCHANGED <<cfg, pc, epoch, loader_left, next_prompt, buffer, buffer_batch, newbatch,
                   roll_batch, valid_batch, batch, kl_ctrl, global_steps, metrics,
                   checkpoints, kl_updates, completed>>

\* advantages, returns = compute_rloo_returns(data, eos_mask, n_samples, config)
UnitRlooReturns ==
    /\ pc = "unit_rloo"
    /\ args.returns = NotComputed
    /\ args' = [args EXCEPT !.returns =
                    compute_rloo_returns(batch, [b \in 1..Len(batch) |-> response_mask(batch[b])],
                                         args.n_samples, cfg).returns]
    /\ log' = Append(log, "compute_rloo_returns")
    /\ UNCHANGED <<cfg, pc, epoch, loader_left, next_prompt, buffer, buffer_batch, newbatch,
                   roll_batch, valid_batch, batch, kl_ctrl, global_steps, metrics,
                   checkpoints, kl_updates, completed>>

\* advantages, returns = compute_remax_returns(data, eos_mask, n_samples, config)
UnitRemaxReturns ==
    /\ pc = "unit_rloo"
    /\ args.remax = NotComputed
    /\ args' = [args EXCEPT !.remax =
                    compute_remax_returns(batch, [b \in 1..Len(batch) |-> response_mask(batch[b])],
                                          args.n_samples, cfg).returns]
    /\ log' = Append(log, "compute_remax_returns")
    /\ UNCHANGED <<cfg, pc, epoch, loader_left, next_prompt, buffer, buffer_batch, newbatch,
                   roll_batch, valid_batch, batch, kl_ctrl, global_steps, metrics,
                   checkpoints, kl_updates, completed>>

NextRloo ==
    \/ UnitMaskedRloo
    \/ UnitRlooReturns
    \/ UnitRemaxReturns

SpecRloo == InitRloo /\ [][NextRloo]_vars

(***************************************************************************)
(* compute_dpo_accuracy (core_algos and prime_core_algos, the same text)   *)
(***************************************************************************)
\* (token_level_scores[i] * eos_mask[i]).sum() of one row
MaskedScore(scores, mask) ==
    FlSum([t \in 1..Len(scores) |-> RMul(scores[t], Rat(mask[t]))])

\* get_upper_triangle: the differences x[i] - x[j] for i < j, row by row
get_upper_triangle(x) ==
    Flatten([i \in 1..Len(x) |-> [d \in 1..(Len(x) - i) |-> Fl(RSub(x[i], x[i + d]))]])

RAbs(q) == <<Abs(q[1]), q[2]>>

\* q > 0
Positive(q) == q[1] > 0

\* the value of one group: [error, cur_acc]
GroupDpoAccuracy(cur_scores, cur_accs) ==
    LET cur_acc_diff == get_upper_triangle(cur_accs) \o <<>>
        cur_score_diff == get_upper_triangle(cur_scores) \o <<>>
        total == FlSum([p \in 1..Len(cur_acc_diff) |-> RAbs(cur_acc_diff[p])])
        agreed == FlSum([p \in 1..Len(cur_acc_diff) |->
                            IF Positive(cur_score_diff[p]) = Positive(cur_acc_diff[p])
                            THEN RAbs(cur_acc_diff[p]) ELSE Rat(0)])
    IN  IF total = Rat(0)
        THEN IF Len(cur_score_diff) = 0
             THEN [error |-> "IndexError", cur_acc |-> Untracked]
             ELSE [error |-> NoError, cur_acc |-> <<1, 2>>]
        ELSE [error |-> NoError, cur_acc |-> Fl(RDiv(agreed, total))]

\* compute_dpo_accuracy: [error, dpo_acc (the value of every group), out (their mean)]
compute_dpo_accuracy(token_level_scores, acc, eos_mask, n) ==
    LET groups == Len(token_level_scores) \div n
        cur_scores == [i \in 1..Len(acc) |-> MaskedScore(token_level_scores[i], eos_mask[i])]
                          \o <<>>
        dpo_acc == [g \in 1..groups |->
                       GroupDpoAccuracy(SubSeq(cur_scores, (g - 1) * n + 1, g * n),
                                        SubSeq(acc, (g - 1) * n + 1, g * n))] \o <<>>
    IN  IF \E g \in 1..groups : dpo_acc[g].error # NoError
        THEN [error |-> "IndexError", dpo_acc |-> <<>>, out |-> Untracked]
        ELSE [error |-> NoError,
              dpo_acc |-> [g \in 1..groups |-> dpo_acc[g].cur_acc],
              out |-> Fl(RDiv(FlSum([g \in 1..groups |-> dpo_acc[g].cur_acc]), Rat(groups)))]

(***************************************************************************)
(* Unit specification of compute_dpo_accuracy: a group size, the rows of a *)
(* first group (accuracy, token scores, mask) and a second group are       *)
(* drawn; the function runs, two neighbouring rows of the first group may  *)
(* then be exchanged and the function runs again.                          *)
(***************************************************************************)
UnitAccs == {Rat(0), Rat(1)}

\* token scores and mask of a row: the masked sums are 1, 1 and 0
UnitScoreRows ==
    {[scores |-> <<Rat(1), Rat(5)>>, mask |-> <<1, 0>>],
     [scores |-> <<Rat(2), Rat(-1)>>, mask |-> <<1, 1>>],
     [scores |-> <<Rat(0), Rat(0)>>, mask |-> <<1, 1>>]}

\* the second group: its accuracies are 1, or 1 for its first row only
UnitSecondGroupAccs(n, same) == [i \in 1..n |-> IF same \/ i = 1 THEN Rat(1) ELSE Rat(0)]

\* the sequence s with its elements i and i + 1 exchanged
Exchange(s, i) ==
    [j \in 1..Len(s) |-> IF j = i THEN s[i + 1] ELSE IF j = i + 1 THEN s[i] ELSE s[j]]

InitDpo ==
    /\ \E n \in 1..MaxSamples, same \in BOOLEAN :
         \E a \in [1..n -> UnitAccs], r \in [1..n -> UnitScoreRows] :
            args = [n_samples |-> n,
                    acc |-> a \o UnitSecondGroupAccs(n, same),
                    token_level_scores |->
                        [i \in 1..(2 * n) |-> IF i <= n THEN r[i].scores
                                              ELSE <<Rat(2 * n - i), Rat(0)>>],
                    eos_mask |-> [i \in 1..(2 * n) |-> IF i <= n THEN r[i].mask ELSE <<1, 1>>],
                    error |-> NoError, dpo_acc |-> NotComputed, out |-> NotComputed,
                    exchanged |-> 0, previous |-> NotComputed]
    /\ cfg = <<>>
    /\ pc = "unit_dpo"
    /\ batch = <<>>
    /\ kl_ctrl = Unset
    /\ kl_updates = 0
    /\ epoch = 0
    /\ loader_left = 0
    /\ next_prompt = 1
    /\ buffer = <<>>
    /\ buffer_batch = <<>>
    /\ newbatch = <<>>
    /\ roll_batch = <<>>
    /\ valid_batch = <<>>
    /\ global_steps = 0
    /\ metrics = NoMetrics
    /\ checkpoints = {}
    /\ log = <<>>
    /\ completed = 0

\* dpo_acc = compute_dpo_accuracy(token_level_scores, acc, eos_mask, n_samples)
UnitDpoAccuracy ==
    /\ pc = "unit_dpo"
    /\ args.out = NotComputed
    /\ LET r == compute_dpo_accuracy(args.token_level_scores, args.acc, args.eos_mask,
                                     args.n_samples)
       IN  /\ args' = [args EXCEPT !.error = r.error, !.dpo_acc = r.dpo_acc, !.out = r.out]
           /\ log' = Append(log, IF r.error = NoError THEN "compute_dpo_accuracy" ELSE r.error)
           /\ pc' = IF r.error = NoError THEN "unit_dpo" ELSE "unit_dpo_failed"
    /\ UNCHANGED <<cfg, epoch, loader_left, next_prompt, buffer, buffer_batch, newbatch,
                   roll_batch, valid_batch, batch, kl_ctrl, global_steps, metrics,
                   checkpoints, kl_updates, completed>>

\* the caller passes the same group with rows i and i + 1 of the first group exchanged
UnitExchange ==
    /\ pc = "unit_dpo"
    /\ args.out # NotComputed
    /\ args.exchanged = 0
    /\ \E i \in 1..(args.n_samples - 1) :
          args' = [args EXCEPT !.acc = Exchange(args.acc, i),
                               !.token_level_scores = Exchange(args.token_level_scores, i),
                               !.eos_mask = Exchange(args.eos_mask, i),
                               !.exchanged = i,
                               !.previous = args.dpo_acc,
                               !.dpo_acc = NotComputed,
                               !.out = NotComputed]
    /\ UNCHANGED <<cfg, pc, epoch, loader_left, next_prompt, buffer, buffer_batch, newbatch,
                   roll_batch, valid_batch, batch, kl_ctrl, global_steps, metrics,
                   checkpoints, log, kl_updates, completed>>

NextDpo ==
    \/ UnitDpoAccuracy
    \/ UnitExchange

SpecDpo == InitDpo /\ [][NextDpo]_vars

(***************************************************************************)
(* PRIMERewardModelWorker._forward_micro_batch (fsdp_workers.py), from the *)
(* difference q of the log-probabilities on: the process reward r and the  *)
(* token-level score assembled from it.                                    *)
(***************************************************************************)
Min(a, b) == IF a <= b THEN a ELSE b

\* step_ends of the 'whole' granularity taken at the last position of the tensor
StepEnds_at_tensor_end(L, granularity) ==
    IF granularity = "token" THEN [j \in 1..L |-> j - 1] ELSE <<MaxGenLen - 1>>

\* step_ends of one sequence with max_positions L (0-based positions)
StepEnds(L, granularity) ==
    IF granularity = "token" THEN [j \in 1..L |-> j - 1] ELSE <<L - 1>>

\* the loop `token_level_score[i, step_range[1]] = r[i, step_range[0]:step_range[1] + 1].sum()`
\* on one row, from step j (a negative index counts from the end)
RECURSIVE AssembleFrom(_, _, _, _)
AssembleFrom(score, r, step_end, j) ==
    IF j > Len(step_end) THEN score
    ELSE LET num_actions == Len(r)
             lo == IF j > 1 THEN Min(step_end[j - 1] + 1, num_actions - 1) ELSE 0
             hi == Min(num_actions - 1, step_end[j])
             at == IF hi < 0 THEN hi + num_actions ELSE hi
         IN  AssembleFrom([score EXCEPT ![at + 1] = FlSum(SubSeq(r, lo + 1, hi + 1))],
                          r, step_end, j + 1)

\* the granularities _forward_micro_batch knows
Granularities == {"token", "whole"}

\* _forward_micro_batch from q on: q and acc are the tensors of the micro-batch,
\* max_positions the valid response lengths; yields the exception raised, the process
\* reward r, the implicit values q_ (with prime_lambda # 0) and token_level_score
forward_micro_batch(q, acc, max_positions, config) ==
    LET lam == config.prime_lambda
        beta == config.beta_train
        scaled == [i \in 1..Len(q) |-> [t \in 1..Len(q[i]) |-> Fl(RMul(q[i][t], beta))] \o <<>>]
                      \o <<>>
        Assembled(q_, r) ==
            IF config.prime_granularity \notin Granularities
            THEN [error |-> NotImplementedError, q_ |-> q_, r |-> r, token_level_score |-> <<>>]
            ELSE [error |-> NoError, q_ |-> q_, r |-> r,
                  token_level_score |->
                      [i \in 1..Len(r) |->
                          AssembleFrom([t \in 1..Len(r[i]) |-> Rat(0)], r[i],
                                       StepEnds(max_positions[i], config.prime_granularity),
                                       1)] \o <<>>]
        Rewarded(q_) == Assembled(q_, IF lam = Rat(0) THEN q_ ELSE LambdaReturns(q_, lam))
    IN  Rewarded(IF lam = Rat(0) THEN scaled
                 ELSE [i \in 1..Len(q) |->
                          ImplicitValues(scaled[i], acc[i], max_positions[i],
                                         config.prime_use_gt)] \o <<>>)

(***************************************************************************)
(* Unit specification of the implicit values and of the score assembly     *)
(* (compute_gae_value_returns and _forward_micro_batch): q of a first      *)
(* sequence, its valid length and its ground-truth accuracy, and the       *)
(* configuration are drawn; a second sequence is fixed; each function runs *)
(* once.                                                                   *)
(***************************************************************************)
\* beta * log-probability differences; the last one is -(1 + 2^-23), a float32
UnitQs == {Rat(0), Rat(1), <<-8388609, 8388608>>}
UnitLams == {Rat(1), <<1, 2>>}

\* the variables the unit specifications do not use
UnitIdle ==
    /\ kl_ctrl = Unset
    /\ kl_updates = 0
    /\ epoch = 0
    /\ loader_left = 0
    /\ next_prompt = 1
    /\ buffer = <<>>
    /\ buffer_batch = <<>>
    /\ newbatch = <<>>
    /\ roll_batch = <<>>
    /\ valid_batch = <<>>
    /\ global_steps = 0
    /\ metrics = NoMetrics
    /\ checkpoints = {}
    /\ completed = 0

UnitIdleUnchanged ==
    UNCHANGED <<epoch, loader_left, next_prompt, buffer, buffer_batch, newbatch, roll_batch,
                valid_batch, kl_ctrl, global_steps, metrics, checkpoints, kl_updates,
                completed>>

\* a rollout row of valid response length L: rm_scores q, accuracy acc at its last
\* valid token
UnitValRow(q, acc, L) ==
    [prompts |-> <<7>>, responses |-> [t \in 1..Len(q) |-> 1],
     attention_mask |-> <<1>> \o [t \in 1..Len(q) |-> IF t <= L THEN 1 ELSE 0],
     rm_scores |-> q, acc |-> acc,
     gt_scores |-> [t \in 1..Len(q) |-> IF t = L THEN acc ELSE Rat(0)]]

InitVal ==
    /\ \E gen_len \in 1..MaxGenLen :
         \E q \in [1..gen_len -> UnitQs], L \in 1..gen_len, acc \in {Rat(0), Rat(1)} :
            batch = <<UnitValRow(q, acc, L),
                      UnitValRow([t \in 1..gen_len |-> <<1, 2>>], Rat(1), gen_len)>>
    /\ cfg \in [lam : UnitLams, prime_lambda : {Rat(0), Rat(1)}, beta_train : {Rat(1)},
                prime_use_gt : BOOLEAN, prime_granularity : Granularities \cup {"step"}]
    /\ args = [value |-> NotComputed, forward |-> NotComputed]
    /\ pc = "unit_val"
    /\ log = <<>>
    /\ UnitIdle

\* advantages, returns = compute_gae_value_returns(data, eos_mask, n_samples, config, lam, gamma)
UnitGaeValueReturns ==
    /\ pc = "unit_val"
    /\ args.value = NotComputed
    /\ args' = [args EXCEPT !.value =
                    compute_gae_value_returns(batch, [b \in 1..Len(batch) |-> response_mask(batch[b])],
                                              1, cfg, cfg.lam, Rat(1))]
    /\ log' = Append(log, "compute_gae_value_returns")
    /\ UNCHANGED <<cfg, pc, batch>>
    /\ UnitIdleUnchanged

\* token_level_score, q = self._forward_micro_batch(micro_batch, prompt_length), the
\* model's q being the rm_scores of the batch
UnitForwardMicroBatch ==
    /\ pc = "unit_val"
    /\ args.forward = NotComputed
    /\ args' = [args EXCEPT !.forward =
                    forward_micro_batch(Tensor(batch, "rm_scores"), Tensor(batch, "acc"),
                                        [b \in 1..Len(batch) |-> valid_response_length(batch[b])],
                                        cfg)]
    /\ log' = Append(log, "_forward_micro_batch")
    /\ UNCHANGED <<cfg, pc, batch>>
    /\ UnitIdleUnchanged

NextVal ==
    \/ UnitGaeValueReturns
    \/ UnitForwardMicroBatch

SpecVal == InitVal /\ [][NextVal]_vars

(***************************************************************************)
(* PRIMERewardModelWorker.compute_rm_score (fsdp_workers.py): the loop     *)
(* over the micro-batches with the self-training of the reward model.  The *)
(* worker w carries weights (the number of optimizer steps that made the   *)
(* current weights), grad (the micro-batches, <<call, batch_id>>, whose    *)
(* loss.backward() is accumulated in the gradients) and, per call, the     *)
(* loop index, the scores collected (each tagged with the weights that     *)
(* computed it) and the optimizer steps taken.                             *)
(***************************************************************************)
MaxMicro == 4
MaxCalls == 2

UpdateTypes == {"none", "after", "before"}

\* mini_batch_size // world_size / micro_batch_size, a python float
accumulate_steps(config) ==
    RDiv(Rat(config.mini_batch_size \div config.world_size), Rat(config.micro_batch_size))

\* (batch_id + 1) % accumulate_steps == 0
StepDue(config, batch_id) ==
    ((batch_id + 1) * accumulate_steps(config)[2]) % accumulate_steps(config)[1] = 0

\* grad_norm = self._optimizer_step(); self.reward_optimizer.zero_grad()
optimizer_step(w) ==
    [w EXCEPT !.weights = w.weights + 1,
              !.steps = Append(w.steps, [batch_id |-> w.batch_id, used |-> w.grad]),
              !.grad = <<>>]

\* loss.backward() of the micro-batch at the loop index
backward(w) ==
    [w EXCEPT !.grad = Append(w.grad, <<w.call, w.batch_id>>),
              !.backwards = w.backwards + 1]

\* the body of `for batch_id, micro_batch in enumerate(micro_batches)` at w.batch_id
micro_batch_body(w, config) ==
    LET scored == [w EXCEPT !.token_level_scores = Append(w.token_level_scores, w.weights)]
        Stepped(v) == IF StepDue(config, v.batch_id) THEN optimizer_step(v) ELSE v
        Advanced(v) == [v EXCEPT !.batch_id = v.batch_id + 1]
    IN  IF config.update = "none" THEN Advanced(scored)
        ELSE Advanced(Stepped(backward(scored)))

\* after the loop: the scores are computed again in 'before' mode; the output
recompute(w, config) ==
    IF config.update = "before"
    THEN [w EXCEPT !.token_level_scores = [i \in 1..w.n_micro |-> w.weights]]
    ELSE w

(***************************************************************************)
(* Unit specification of compute_rm_score: the update mode and the batch   *)
(* sizes are drawn; the worker is called up to MaxCalls times, each time   *)
(* with 1..MaxMicro micro-batches.                                         *)
(***************************************************************************)
UnitRmConfigs ==
    [update : UpdateTypes \cup {"both"}, mini_batch_size : {2, 3, 4}, micro_batch_size : {1, 2},
     world_size : {1, 2}]

InitRm ==
    /\ cfg \in UnitRmConfigs
    /\ args = [weights |-> 0, grad |-> <<>>, call |-> 0, n_micro |-> 0, batch_id |-> 0,
               token_level_scores |-> <<>>, steps |-> <<>>, backwards |-> 0, start |-> 0,
               output |-> NotComputed]
    /\ pc = "rm_idle"
    /\ batch = <<>>
    /\ log = <<>>
    /\ UnitIdle

\* compute_rm_score is called: the head of the function, up to the loop
UnitRmCall ==
    /\ pc = "rm_idle"
    /\ args.call < MaxCalls
    /\ \E m \in 1..MaxMicro :
          args' = [args EXCEPT !.call = args.call + 1, !.n_micro = m, !.batch_id = 0,
                               !.token_level_scores = <<>>, !.steps = <<>>, !.backwards = 0,
                               !.start = args.weights, !.output = NotComputed]
    /\ pc' = "rm_loop"
    /\ log' = <<"compute_rm_score">>
    /\ UNCHANGED <<cfg, batch>>
    /\ UnitIdleUnchanged

\* one iteration of the loop over the micro-batches
UnitRmMicroBatch ==
    /\ pc = "rm_loop"
    /\ args.batch_id < args.n_micro
    /\ IF cfg.update \in UpdateTypes
       THEN /\ args' = micro_batch_body(args, cfg)
            /\ pc' = pc
            /\ log' = Append(log, "_forward_micro_batch")
       ELSE /\ args' = args
            /\ pc' = "rm_failed"
            /\ log' = Append(log, NotImplementedError)
    /\ UNCHANGED <<cfg, batch>>
    /\ UnitIdleUnchanged

\* the loop is over: dpo_acc, the recomputation of 'before' mode, the return
UnitRmReturn ==
    /\ pc = "rm_loop"
    /\ args.batch_id = args.n_micro
    /\ args' = [recompute(args, cfg) EXCEPT !.output = recompute(args, cfg).token_level_scores]
    /\ pc' = "rm_idle"
    /\ log' = Append(log, "return")
    /\ UNCHANGED <<cfg, batch>>
    /\ UnitIdleUnchanged

NextRm ==
    \/ UnitRmCall
    \/ UnitRmMicroBatch
    \/ UnitRmReturn

SpecRm == InitRm /\ [][NextRm]_vars

(***************************************************************************)
(* The adaptive entropy coefficient of fit: the tail of a step from the     *)
(* critic warmup test to the increment of global_steps.  args.entropy_coeff *)
(* is the local variable entropy_coeff of fit, Unset while nothing has been *)
(* assigned to it; args.handed lists batch.meta_info['entropy_coeff'] of    *)
(* the actor updates, args.reported the entropy losses they returned.       *)
(***************************************************************************)
MaxEntSteps == 3

EntropyModes == {"adaptive", "fixed"}

\* the learning rate 0.01 of the entropy coefficient
EntropyLr == <<1, 100>>

UnboundLocalError == "UnboundLocalError"

\* entropy_coeff as it stands after `if self.global_steps == 0: entropy_coeff = 0`
entropy_coeff_at_update(entropy_coeff, steps) == IF steps = 0 THEN Rat(0) ELSE entropy_coeff

\* entropy_coeff += 0.01 * (entropy_target - entropy_current)
entropy_coeff_update(entropy_coeff, entropy_target, entropy_current) ==
    RAdd(entropy_coeff, RMul(EntropyLr, RSub(entropy_target, entropy_current)))

UnitEntConfigs ==
    [critic_warmup : 0..MaxWarmup, entropy_mode : EntropyModes,
     entropy_coeff : {Rat(0), <<1, 1000>>, Rat(1)}]

InitEnt ==
    /\ cfg \in UnitEntConfigs
    /\ args = [entropy_coeff |-> Unset, handed |-> <<>>, reported |-> <<>>, updates |-> 0]
    /\ pc = "ent_step"
    /\ global_steps = 0
    /\ batch = <<>>
    /\ log = <<>>
    /\ kl_ctrl = Unset
    /\ kl_updates = 0
    /\ epoch = 0
    /\ loader_left = 0
    /\ next_prompt = 1
    /\ buffer = <<>>
    /\ buffer_batch = <<>>
    /\ newbatch = <<>>
    /\ roll_batch = <<>>
    /\ valid_batch = <<>>
    /\ metrics = NoMetrics
    /\ checkpoints = {}
    /\ completed = 0

UnitEntUnchanged ==
    UNCHANGED <<cfg, batch, epoch, loader_left, next_prompt, buffer, buffer_batch, newbatch,
                roll_batch, valid_batch, kl_ctrl, metrics, checkpoints, kl_updates, completed>>

\* a step during the critic warmup: the actor is not updated
UnitEntWarmupStep ==
    /\ pc = "ent_step"
    /\ global_steps < MaxEntSteps
    /\ ~PastWarmup
    /\ global_steps' = global_steps + 1
    /\ log' = Append(log, "warmup")
    /\ UNCHANGED <<args, pc>>
    /\ UnitEntUnchanged

\* a step past the critic warmup with a fixed entropy coefficient
UnitEntFixedStep ==
    /\ pc = "ent_step"
    /\ global_steps < MaxEntSteps
    /\ PastWarmup
    /\ cfg.entropy_mode # "adaptive"
    /\ global_steps' = global_steps + 1
    /\ log' = Append(log, "update_actor")
    /\ UNCHANGED <<args, pc>>
    /\ UnitEntUnchanged

\* a step past the critic warmup in adaptive mode: the coefficient is handed to
\* update_actor and moved by the entropy loss the update reports; reading the local
\* before anything was assigned to it raises UnboundLocalError and ends fit
UnitEntAdaptiveStep ==
    /\ pc = "ent_step"
    /\ global_steps < MaxEntSteps
    /\ PastWarmup
    /\ cfg.entropy_mode = "adaptive"
    /\ \E coeff \in {entropy_coeff_at_update(args.entropy_coeff, global_steps)} :
          IF coeff = Unset
          THEN /\ pc' = "ent_failed"
               /\ log' = Append(log, UnboundLocalError)
               /\ UNCHANGED <<args, global_steps>>
          ELSE \E entropy_current \in {Rat(0), Rat(1), Rat(2)} :
                  /\ args' = [entropy_coeff |-> entropy_coeff_update(coeff, cfg.entropy_coeff,
                                                                     entropy_current),
                              handed |-> Append(args.handed, coeff),
                              reported |-> Append(args.reported, entropy_current),
                              updates |-> args.updates + 1]
                  /\ global_steps' = global_steps + 1
                  /\ log' = Append(log, "update_actor")
                  /\ pc' = pc
    /\ UnitEntUnchanged

NextEnt ==
    \/ UnitEntWarmupStep
    \/ UnitEntFixedStep
    \/ UnitEntAdaptiveStep

SpecEnt == InitEnt /\ [][NextEnt]_vars

\* the methods of the worker groups fit calls
Dispatches == {"generate_sequences", "compute_ref_log_prob", "compute_rm_score",
               "compute_values", "update_critic", "update_actor", "save_checkpoint"}

(***************************************************************************)
(* Unit specification of the whitening and of the group normalisation: an  *)
(* estimator, the group size and a batch of two rollouts carrying every    *)
(* tensor are drawn; init_workers and compute_advantage run on them.       *)
(* compute_rloo_returns divides by n_samples - 1 and is drawn with groups  *)
(* of two only.                                                            *)
(***************************************************************************)
\* a rollout of response_length 2 and valid length L: verifier score acc at its last
\* valid token, critic values v, and rm_scores q when the batch carries them
UnitWhitenRow(L, acc, v, has_rm, q) ==
    LET gt == [t \in 1..2 |-> IF t = L THEN Rat(acc) ELSE Rat(0)]
        all == [responses |-> <<1, 1>>, prompts |-> <<7>>,
                attention_mask |-> <<1>> \o [t \in 1..2 |-> IF t <= L THEN 1 ELSE 0],
                token_level_scores |-> gt, token_level_rewards |-> gt,
                values |-> <<v, v>>, gt_scores |-> gt, rm_scores |-> <<q, q>>]
    IN  [k \in (DOMAIN all) \ (IF has_rm THEN {} ELSE {"rm_scores"}) |-> all[k]]

UnitWhitenConfigs ==
    {c \in [adv_estimator : Estimators, n_samples : {1, 2}, gamma : {Rat(1)}, lam : {Rat(1)},
            reward_model_gamma : {Rat(1)}, verifier_gamma : {Rat(1)}, rm_coef : {Rat(1)},
            reward_coef : {Rat(1)}, prime_granularity : {"token"}, prime_use_gt : {TRUE}] :
        c.adv_estimator = "rloo" => c.n_samples = 2}

InitWhiten ==
    /\ cfg \in UnitWhitenConfigs
    /\ pc = "unit_adv"
    /\ \E L \in 1..2, a1 \in 0..1, a2 \in 0..1, v \in {Rat(0), <<1, 2>>}, has_rm \in BOOLEAN,
          q \in {Rat(0), <<1, 2>>} :
          batch = <<UnitWhitenRow(L, a1, v, has_rm, q), UnitWhitenRow(2, a2, v, has_rm, q)>>
    /\ log = <<>>
    /\ args = <<>>
    /\ UnitIdle

SpecWhiten == InitWhiten /\ [][NextAdv]_vars

(***************************************************************************)
(* Properties                                                              *)
(***************************************************************************)
Range(q) == {q[i] : i \in 1..Len(q)}

IsStage(x) == x \in {"reward_fn", "apply_kl_penalty", "compute_advantage",
                     "update_critic", "update_actor"}

StageRank(x) ==
    CASE x = "reward_fn" -> 1
      [] x = "apply_kl_penalty" -> 2
      [] x = "compute_advantage" -> 3
      [] x = "update_critic" -> 4
      [] x = "update_actor" -> 5

\* C1: the stages of a step run in the order reward_fn, apply_kl_penalty,
\* compute_advantage, update_critic, update_actor, each at most once; a completed
\* step has run the first three exactly once, update_critic exactly when a critic is
\* used and update_actor exactly when past warmup; no update is dispatched before
\* 'advantages' and 'returns' are in the batch.
C1_StageOrder ==
    LET st == SelectSeq(log, IsStage)
    IN  /\ \A i \in 1..Len(st) : \A j \in 1..Len(st) :
              i < j => StageRank(st[i]) < StageRank(st[j])
        /\ (Range(st) \cap {"update_critic", "update_actor"} # {}) =>
              /\ SubSeq(st, 1, 3) = <<"reward_fn", "apply_kl_penalty", "compute_advantage">>
              /\ \A j \in 1..Len(batch) : {"advantages", "returns"} \subseteq DOMAIN batch[j]
        /\ pc = "step_end" =>
              /\ Len(st) >= 3
              /\ SubSeq(st, 1, 3) = <<"reward_fn", "apply_kl_penalty", "compute_advantage">>
              /\ ("update_critic" \in Range(st)) <=> (cfg.adv_estimator = "gae")
              /\ ("update_actor" \in Range(st)) <=> (cfg.critic_warmup <= completed)

C1_Witness ==
    /\ pc = "step_end"
    /\ SelectSeq(log, IsStage) = <<"reward_fn", "apply_kl_penalty", "compute_advantage",
                                   "update_critic", "update_actor">>

Forbidden == {"compute_ref_log_prob", "compute_rm_score", "compute_values",
              "update_critic", "update_actor", "apply_kl_penalty", "save_checkpoint"}

\* C2: when the data source is exhausted with fewer than batch_size*n_samples valid
\* rollouts, the step is abandoned: none of the scoring / update / checkpoint
\* dispatches happened in it, the KL controller, the checkpoints and global_steps
\* stay as they are, and the driver goes on with the epoch loop.
C2_AbandonedStep ==
    [][ /\ (pc = "check" /\ Len(valid_batch) < Target) => (loader_left = 0 /\ pc' = "break")
        /\ (pc = "break") =>
              /\ Range(log) \cap Forbidden = {}
              /\ kl_updates = completed
              /\ global_steps = completed
              /\ pc' = "epoch_loop"
              /\ global_steps' = global_steps
              /\ kl_ctrl' = kl_ctrl
              /\ kl_updates' = kl_updates
              /\ checkpoints' = checkpoints ]_vars

C2_Witness ==
    /\ pc = "break"
    /\ "generate_sequences" \in Range(log)
    /\ completed > 0

\* C3: when more than batch_size*n_samples rollouts were collected, the batch
\* add_to_buffer returns is the first batch_size groups of the collected batch, row
\* for row, and has exactly batch_size*n_samples rows.
C3_CutKeepsFirstGroups ==
    [][ (pc = "check" /\ Len(valid_batch) > Target) =>
            /\ Len(batch') = train_batch_size * n_samples
            /\ \A j \in 1..Len(batch') : batch'[j] = valid_batch[j]
            /\ valid_batch' = batch' ]_vars

C3_Witness ==
    /\ pc = "ref"
    /\ "add_to_buffer" \in Range(log)
    /\ Len(batch) = train_batch_size * n_samples
    /\ PromptOf(batch[1]) # PromptOf(batch[Len(batch)])

\* the rows appended to the overflow buffer by a step
Added(before, after) == SubSeq(after, Len(before) + 1, Len(after))

\* C4 (as claimed): the excess groups are moved into the buffer as prompt-only
\* entries that preserve the n_samples-contiguous grouping, i.e. every row of every
\* excess group has its prompt-only entry, in order.
C4_ExcessGroupsMovedWhole ==
    [][ (pc = "check" /\ Len(valid_batch) > Target) =>
            LET added == Added(buffer, buffer')
                excess == (Len(valid_batch) \div n_samples) - train_batch_size
            IN  /\ Len(added) = excess * n_samples
                /\ \A j \in 1..Len(added) :
                      /\ DOMAIN added[j] = PromptKeys
                      /\ PromptOf(added[j]) = PromptOf(valid_batch[Target + j]) ]_vars

\* C4 (amended): exactly one prompt-only entry per excess group is appended to the
\* buffer, in group order: the prompt fields of the group's first row cut to
\* max_prompt_length; no entry belongs to a kept group and no response field is kept.
C4_ExcessGroupsBuffered ==
    [][ (pc = "check" /\ Len(valid_batch) > Target) =>
            LET added == Added(buffer, buffer')
                excess == (Len(valid_batch) \div n_samples) - train_batch_size
            IN  /\ excess * n_samples = Len(valid_batch) - Target
                /\ SubSeq(buffer', 1, Len(buffer)) = buffer
                /\ Len(added) = excess
                /\ \A g \in 1..excess :
                      LET first == valid_batch[Target + (g - 1) * n_samples + 1]
                      IN  /\ DOMAIN added[g] = PromptKeys
                          /\ \A k \in PromptKeys :
                                added[g][k] = SubSeq(first[k], 1, max_prompt_length)
                          /\ added[g] = PromptRow(PromptOf(first))
                /\ \A g \in 1..Len(added) : \A j \in 1..Target :
                      PromptOf(added[g]) # PromptOf(valid_batch[j]) ]_vars

C4_Witness ==
    /\ pc = "ref"
    /\ "add_to_buffer" \in Range(log)
    /\ Len(buffer) >= 1
    /\ PromptOf(buffer[Len(buffer)]) > PromptOf(batch[Len(batch)])

\* does row j of rows sit in a group whose mean accuracy is within the bounds?
GroupInBounds(rows, j) ==
    LET first == ((j - 1) \div n_samples) * n_samples
        total == SumSeq([i \in 1..n_samples |-> rows[first + i].acc])
        lo == cfg.accuracy_lower_bound
        hi == cfg.accuracy_upper_bound
    IN  lo[1] * n_samples <= total * lo[2] /\ total * hi[2] <= hi[1] * n_samples

RECURSIVE KeptUpTo(_, _)
KeptUpTo(rows, j) ==
    IF j = 0 THEN <<>>
    ELSE KeptUpTo(rows, j - 1) \o (IF GroupInBounds(rows, j) THEN <<rows[j]>> ELSE <<>>)

\* C5: the accuracy filter keeps a rollout iff the mean accuracy of its group lies
\* in [accuracy_lower_bound, accuracy_upper_bound], both inclusive; the kept rollouts
\* stay in order and whole groups are kept or dropped; nothing may be left.
C5_FilterKeepsGroupsInBounds ==
    [][ (pc = "filter" /\ cfg.filter_accuracy) =>
            LET kept == KeptUpTo(roll_batch, Len(roll_batch))
            IN  /\ valid_batch' = valid_batch \o kept
                /\ Len(kept) % n_samples = 0 ]_vars

C5_Witness ==
    /\ pc = "collect"
    /\ cfg.filter_accuracy
    /\ cfg.accuracy_lower_bound = <<1, 2>>
    /\ log = <<"generate_sequences", "verify", "filter">>
    /\ Len(valid_batch) = n_samples
    /\ 2 * SumSeq([j \in 1..Len(valid_batch) |-> valid_batch[j].acc]) = n_samples

\* rows come in groups of n_samples rollouts of one prompt
Grouped(rows) ==
    /\ Len(rows) % n_samples = 0
    /\ \A j \in 1..Len(rows) :
          PromptOf(rows[j]) = PromptOf(rows[((j - 1) \div n_samples) * n_samples + 1])

\* C6: the rollouts of a round, the collected rollouts and the batch handed to
\* scoring, advantage estimation and the updates always consist of whole groups of
\* n_samples consecutive rollouts of one prompt.
C6_GroupContiguity ==
    /\ Grouped(roll_batch)
    /\ Grouped(valid_batch)
    /\ Grouped(batch)
    /\ pc \in {"ref", "rm", "values", "reward", "kl", "adv", "update_critic", "update_actor"}
          => (Len(batch) = Target /\ \A j \in 1..Len(batch) : "responses" \in DOMAIN batch[j])

C6_Witness ==
    /\ pc = "adv"
    /\ cfg.filter_accuracy
    /\ {"get_from_buffer", "filter", "add_to_buffer"} \subseteq Range(log)
    /\ completed >= 1
    /\ PromptOf(batch[1]) < next_prompt - LoaderBatch

StepPcs == {"ref", "rm", "values", "reward", "kl", "adv", "update_critic",
            "update_actor", "save", "step_end"}

\* C7 (as claimed): no training step is executed once global_steps has reached the
\* configured total_training_steps.
C7_NoStepPastTotal ==
    pc \in StepPcs => global_steps < total_training_steps

\* C8: in the completed step with index k, update_actor is dispatched iff
\* critic_warmup <= k; update_critic is dispatched in every step iff a critic is used.
C8_Warmup ==
    [][ /\ pc = "update_actor" =>
              IF cfg.critic_warmup <= completed
              THEN log' = Append(log, "update_actor")
              ELSE log' = log
        /\ pc = "update_critic" =>
              IF cfg.adv_estimator = "gae"
              THEN log' = Append(log, "update_critic")
              ELSE log' = log
        /\ (pc # "update_actor" /\ "update_actor" \notin Range(log))
              => "update_actor" \notin Range(log')
        /\ (pc # "update_critic" /\ "update_critic" \notin Range(log))
              => "update_critic" \notin Range(log') ]_vars

C8_Witness ==
    /\ pc = "step_end"
    /\ completed < cfg.critic_warmup
    /\ "update_critic" \in Range(log)
    /\ "update_actor" \notin Range(log)

\* C9: the KL controller is updated exactly once per completed step, and only by
\* apply_kl_penalty, after beta was read: the step's token_level_rewards are
\* token_level_scores - beta * kld with beta the coefficient as it was before this
\* step's update (0 and no penalty when the batch has no ref_log_prob).
C9_KlPenaltyUsesPreviousBeta ==
    [][ /\ kl_ctrl' # kl_ctrl => pc = "kl"
        /\ kl_updates' # kl_updates => pc = "kl"
        /\ kl_updates = completed + (IF "apply_kl_penalty" \in Range(log) THEN 1 ELSE 0)
        /\ pc = "kl" =>
              LET has_ref == "ref_log_prob" \in DOMAIN batch[1]
                  beta == IF has_ref THEN kl_ctrl.value ELSE Rat(0)
              IN  /\ has_ref <=> cfg.use_reference_policy
                  /\ metrics'.kl_coeff = beta
                  /\ kl_updates' = kl_updates + 1
                  /\ \A j \in 1..Len(batch) :
                        LET kld == IF has_ref
                                   THEN kl_penalty(batch[j].old_log_probs[1],
                                                   batch[j].ref_log_prob[1], cfg.kl_penalty)
                                   ELSE Rat(0)
                        IN  /\ batch'[j].token_level_rewards[1] =
                                  RSub(batch[j].token_level_scores[1], RMul(beta, kld))
                            /\ ~has_ref => batch'[j].token_level_rewards
                                              = batch[j].token_level_scores ]_vars

C9_Witness ==
    /\ pc = "adv"
    /\ cfg.kl_type = "adaptive"
    /\ completed >= 1
    /\ metrics.kl_coeff # cfg.kl_coef
    /\ metrics.kl_coeff # kl_ctrl.value
    /\ \E j \in 1..Len(batch) : batch[j].token_level_rewards # batch[j].token_level_scores

\* C10: AdaptiveKLController.update multiplies value by
\* 1 + clip(current_kl/target - 1, -0.2, 0.2) * n_steps/horizon and leaves target and
\* horizon alone; current_kl = target leaves value unchanged; the new value lies
\* between value*(1 - 0.2*n_steps/horizon) and value*(1 + 0.2*n_steps/horizon).
C10_AdaptiveUpdate ==
    [][ pc = "unit_kl" =>
          LET old == kl_ctrl.value
              new == kl_ctrl'.value
              t == kl_ctrl.target
              h == kl_ctrl.horizon
              kl == args.current_kl
              n == args.n_steps
              lo == <<5 * h - n, 5 * h>>
              hi == <<5 * h + n, 5 * h>>
              \* e = current_kl/target - 1, for target > 0
              e == Norm(<<kl[1] * t[2] - t[1] * kl[2], kl[2] * t[1]>>)
              factor == IF RLe(<<1, 5>>, e) THEN hi
                        ELSE IF RLe(e, <<-1, 5>>) THEN lo
                        ELSE <<e[2] * h + e[1] * n, e[2] * h>>
          IN  /\ DOMAIN kl_ctrl' = DOMAIN kl_ctrl
              /\ kl_ctrl'.type = kl_ctrl.type
              /\ kl_ctrl'.target = t
              /\ kl_ctrl'.horizon = h
              /\ new[2] > 0
              /\ new = RMul(old, Norm(factor))
              /\ kl = t => new = old
              /\ IF old[1] >= 0
                 THEN RLe(RMul(old, lo), new) /\ RLe(new, RMul(old, hi))
                 ELSE RLe(RMul(old, hi), new) /\ RLe(new, RMul(old, lo)) ]_vars

C10_Witness ==
    /\ pc = "unit_kl"
    /\ kl_updates = 1
    /\ kl_ctrl.target = <<1, 10>>
    /\ kl_ctrl.value = <<11, 100>>

\* C11 (as stated): building an adaptive controller fails if and only if the configured
\* horizon (the one the controller is built from) is <= 0, and then no controller exists;
\* with horizon > 0 the result is an AdaptiveKLController with the configured kl_coef,
\* target_kl and horizon.  Violated by get_kl_controller, whose assert reads
\* config.kl_ctrl.horizon instead of config.critic.kl_ctrl.horizon.
C11_AdaptiveFailsIffHorizonNotPositive ==
    (pc = "unit_ctl_done" /\ cfg.type = "adaptive"
        /\ (log[1] = "__init__" => cfg.use_reference_policy)) =>
        IF cfg.horizon <= 0
        THEN Len(log) = 2 /\ kl_ctrl = Unset
        ELSE /\ Len(log) = 1
             /\ kl_ctrl = AdaptiveKLController(cfg.kl_coef, cfg.target_kl, cfg.horizon)

\* C12: an estimator name outside {gae, rloo, grpo, reinforce, remax, gae_value} makes
\* init_workers fail with NotImplementedError before anything else has been dispatched,
\* and makes compute_advantage fail with NotImplementedError leaving the batch without
\* 'advantages' and 'returns'; init_workers accepts every name of the set.
C12_UnknownEstimatorRejected ==
    /\ (cfg.adv_estimator \notin Estimators /\ Len(log) > 0) =>
          /\ log \in {<<"init_workers", NotImplementedError>>,
                      <<"compute_advantage", NotImplementedError>>}
          /\ pc = "unit_adv_failed"
          /\ ~Has(batch, "advantages") /\ ~Has(batch, "returns")
    /\ (cfg.adv_estimator \in Estimators /\ Len(log) > 0) =>
          /\ log[1] = "init_workers" => (Len(log) = 1 \/ log[2] # NotImplementedError)
          /\ log[Len(log)] # NotImplementedError

C12_Witness ==
    /\ cfg.adv_estimator \notin Estimators
    /\ log = <<"compute_advantage", NotImplementedError>>
    /\ Has(batch, "values") /\ Has(batch, "gt_scores")

\* C13 (as stated, for 'values' and 'gt_scores'): compute_advantage fails (KeyError, or the
\* AttributeError raised when no reward tensor was found) and writes neither 'advantages'
\* nor 'returns' whenever 'values' is absent for gae, or 'gt_scores' (the verifier source,
\* weight 5) is absent for rloo, grpo and remax.  Violated: the group estimators skip an
\* absent source silently when the other one is present.
C13_MissingFieldFails ==
    (Len(log) > 0 /\ log[Len(log)] # "init_workers"
        /\ \/ cfg.adv_estimator = "gae" /\ ~Has(batch, "values")
           \/ cfg.adv_estimator \in {"rloo", "grpo", "remax"}
                /\ ~Has(batch, "gt_scores")) =>
        /\ log[Len(log)] \in {"KeyError", "AttributeError"}
        /\ ~Has(batch, "advantages") /\ ~Has(batch, "returns")


\* C14: kl_penalty returns d, |d| and d*d/2 (d = logprob - ref_logprob) for 'kl',
\* 'abs' and 'mse' and raises NotImplementedError for 'full' and any other type; when
\* the batch carries ref_log_prob, apply_kl_penalty then fails with that error, the
\* controller keeps its value and the batch gets no token_level_rewards.
C14_KlPenaltyTypes ==
    [][LET d == args.logprob - args.ref_logprob
       IN  /\ (pc = "unit_pen" /\ pc' = "unit_pen_token") =>
                CASE cfg.kl_penalty = "kl" -> args'.error = NoError /\ args'.out = Rat(d)
                  [] cfg.kl_penalty = "abs" ->
                        args'.error = NoError /\ args'.out = Rat(IF d < 0 THEN -d ELSE d)
                  [] cfg.kl_penalty = "mse" ->
                        args'.error = NoError /\ RMul(args'.out, Rat(2)) = Rat(d * d)
                  [] OTHER -> args'.error = NotImplementedError /\ args'.out = args.out
           /\ (pc' \in {"unit_pen_done", "unit_pen_failed"} /\ pc # pc') =>
                IF Has(batch, "ref_log_prob") /\ cfg.kl_penalty \notin {"kl", "abs", "mse"}
                THEN /\ pc' = "unit_pen_failed"
                     /\ log' = Append(log, NotImplementedError)
                     /\ kl_ctrl' = kl_ctrl
                     /\ kl_updates' = kl_updates
                     /\ ~Has(batch', "token_level_rewards")
                ELSE /\ pc' = "unit_pen_done"
                     /\ Has(batch', "token_level_rewards")
                     /\ kl_updates' = kl_updates + 1]_vars

C14_Witness ==
    /\ pc = "unit_pen_failed"
    /\ cfg.kl_penalty = "full"
    /\ Has(batch, "ref_log_prob")
    /\ args.error = NotImplementedError
    /\ log = <<NotImplementedError>>
    /\ kl_updates = 0


\* the sum of rewards[b][s] over s >= t, for every b and t
ReverseCumSum(rewards) ==
    [b \in 1..Len(rewards) |->
        [t \in 1..Len(rewards[b]) |-> RSumSeq(SubSeq(rewards[b], t, Len(rewards[b])))]]

\* C15: with values all zero, gamma = 1 and lam = 1 the returns of
\* compute_gae_advantage_return are the reverse cumulative sum of the rewards, and
\* they are the returns compute_reinforce_returns gives with gamma = 1.
C15_GaeIsReverseCumSum ==
    (/\ pc = "unit_ret"
     /\ args.values = Full(args.token_level_rewards, Rat(0))
     /\ args.gamma = Rat(1) /\ args.lam = Rat(1)) =>
        /\ args.gae # NotComputed => args.gae = ReverseCumSum(args.token_level_rewards)
        /\ (args.gae # NotComputed /\ args.reinforce # NotComputed) =>
              args.gae = args.reinforce

C15_Witness ==
    /\ pc = "unit_ret"
    /\ args.values = Full(args.token_level_rewards, Rat(0))
    /\ args.gamma = Rat(1) /\ args.lam = Rat(1)
    /\ Len(args.token_level_rewards[1]) = MaxGenLen
    /\ args.token_level_rewards[1][1] # args.token_level_rewards[1][MaxGenLen]
    /\ args.gae # NotComputed /\ args.reinforce # NotComputed
    /\ args.gae = args.reinforce
    /\ args.gae[1][1] # args.token_level_rewards[1][1]


\* the masked position of row b
MaskedPos(b) == CHOOSE t \in 1..Len(args.mask_tensor[b]) : args.mask_tensor[b][t]

\* the rows of the group of row b
RlooGroup(b) ==
    LET start == ((b - 1) \div args.n_samples) * args.n_samples
    IN  [j \in 1..args.n_samples |-> start + j]

\* whether the rewards of the group of row b are identical
IdenticalRewards(b) ==
    \A j \in 1..args.n_samples :
        LET i == RlooGroup(b)[j]
        IN  args.reward_tensor_original[i][MaskedPos(i)] =
                args.reward_tensor_original[b][MaskedPos(b)]

\* C16 (as stated, its consequence for identical rewards): after masked_rloo, and in the
\* returns of compute_rloo_returns at the masked position (gamma = 1), every sequence of
\* a group of n_samples identical rewards has corrected reward exactly 0.  Violated in
\* float32: for n_samples = 4 and weighted reward 5 the rescaled reward 5 * fl(4/3) and
\* the baseline fl(20/3) differ by 2^-21.
C16_IdenticalRewardsCancel ==
    /\ args.out # NotComputed =>
         \A b \in 1..Len(args.out) :
            IdenticalRewards(b) => args.out[b][MaskedPos(b)] = Rat(0)
    /\ args.returns # NotComputed =>
         \A b \in 1..Len(args.returns) :
            IdenticalRewards(b) => args.returns[b][MaskedPos(b)] = Rat(0)

\* the verifier reward of row i times config.verifier.reward_coef
WeightedReward(i) == RMul(batch[i].gt_scores[MaskedPos(i)], cfg.reward_coef)

\* C17: in the returns of compute_remax_returns at the masked position (verifier source,
\* gamma = 1) the first sequence of every group has corrected reward 0 and every other
\* sequence has its weighted reward minus the weighted reward of the first sequence of
\* its own group, whatever the rewards of the other group are.
C17_RemaxBaselineIsFirst ==
    args.remax # NotComputed =>
        \A b \in 1..Len(args.remax) :
            LET first == RlooGroup(b)[1]
            IN  /\ args.remax[b][MaskedPos(b)] = RSub(WeightedReward(b), WeightedReward(first))
                /\ b = first => args.remax[b][MaskedPos(b)] = Rat(0)

C17_Witness ==
    /\ args.remax # NotComputed
    /\ args.n_samples = MaxSamples
    /\ cfg.reward_coef = Rat(5)
    /\ batch[1].gt_scores[MaskedPos(1)] = Rat(1)
    /\ batch[2].gt_scores[MaskedPos(2)] = Rat(0)
    /\ batch[MaxSamples + 1].gt_scores[MaskedPos(MaxSamples + 1)] = Rat(5)
    /\ args.remax[1][MaskedPos(1)] = Rat(0)
    /\ args.remax[2][MaskedPos(2)] = Rat(-5)
    /\ args.remax[MaxSamples + 1][MaskedPos(MaxSamples + 1)] = Rat(0)

\* the groups of n_samples rows of a batch of rollouts: the first row of every group
\* is the greedy sample, the other rows are stochastic samples, and all rows of the
\* group continue the same prompt
GreedyFirst(data) ==
    /\ Len(data) % n_samples = 0
    /\ \A j \in 1..Len(data) :
          LET first == ((j - 1) \div n_samples) * n_samples + 1
              plen == Len(data[j].input_ids) - Len(data[j].responses)
          IN  /\ IsGreedy(data[j]) <=> j = first
              /\ SubSeq(data[j].input_ids, 1, plen) = SubSeq(data[first].input_ids, 1, plen)

\* C18: with the remax estimator rows [i*n_samples, (i+1)*n_samples) of a round's output
\* belong to prompt i of the round, the first of them is the greedy sample and the
\* others are stochastic; the same holds for every group of the filtered and
\* concatenated rollouts and of the batch that reaches compute_advantage.
C18_GreedySampleFirst ==
    cfg.adv_estimator = "remax" =>
        /\ GreedyFirst(roll_batch)
        /\ GreedyFirst(valid_batch)
        /\ GreedyFirst(batch)
        /\ pc = "verify" =>
              /\ Len(roll_batch) = Len(newbatch) * n_samples
              /\ \A j \in 1..Len(roll_batch) :
                    LET pr == newbatch[((j - 1) \div n_samples) + 1]
                    IN  SubSeq(roll_batch[j].input_ids, 1, Len(pr.input_ids)) = pr.input_ids

C18_Witness ==
    /\ cfg.adv_estimator = "remax"
    /\ cfg.filter_accuracy
    /\ pc = "adv"
    /\ Len(batch) = Target
    /\ Len(buffer) > 0
    /\ global_steps > 0
    /\ IsGreedy(batch[1]) /\ ~IsGreedy(batch[2])
    /\ batch[1].input_ids[1] # batch[n_samples + 1].input_ids[1]


\* the accuracies of group g of the drawn inputs
DpoGroupAccs(g) == SubSeq(args.acc, (g - 1) * args.n_samples + 1, g * args.n_samples)

\* C19 (as stated): once compute_dpo_accuracy has been called, every group whose
\* accuracies are all identical has the value 1/2, whatever its scores, and the
\* returned metric is the mean of the values of the groups.  Violated for n_samples = 1:
\* the group has no pair and the fallback indexes an empty tensor (IndexError).
C19_IdenticalAccuracyHalf ==
    (Len(log) > 0 /\ args.exchanged = 0) =>
        /\ args.error = NoError
        /\ args.out # NotComputed
        /\ \A g \in 1..Len(args.dpo_acc) :
              (\A i \in 1..args.n_samples : DpoGroupAccs(g)[i] = DpoGroupAccs(g)[1]) =>
                  args.dpo_acc[g] = <<1, 2>>
        /\ args.out = Fl(RDiv(FlSum(args.dpo_acc), Rat(Len(args.dpo_acc))))


Sign(q) == IF q[1] > 0 THEN 1 ELSE IF q[1] < 0 THEN -1 ELSE 0

\* the masked-summed score of row i of the drawn inputs
RowScore(i) == RSumSeq([t \in 1..Len(args.eos_mask[i]) |->
                   RMul(args.token_level_scores[i][t], Rat(args.eos_mask[i][t]))])

\* the unordered pairs of rows of group g
DpoPairs(g) ==
    LET start == (g - 1) * args.n_samples
    IN  Flatten([i \in 1..args.n_samples |->
                    [d \in 1..(args.n_samples - i) |-> <<start + i, start + i + d>>]])

\* |acc difference| of a pair, and the same if the pair agrees, else 0
PairWeight(p) == RAbs(RSub(args.acc[p[1]], args.acc[p[2]]))
PairAgreedWeight(p) ==
    IF Sign(RSub(RowScore(p[1]), RowScore(p[2]))) = Sign(RSub(args.acc[p[1]], args.acc[p[2]]))
    THEN PairWeight(p) ELSE Rat(0)

\* the sums of the two over the pairs of group g
TotalWeight(g) == RSumSeq([k \in 1..Len(DpoPairs(g)) |-> PairWeight(DpoPairs(g)[k])])
AgreedWeight(g) == RSumSeq([k \in 1..Len(DpoPairs(g)) |-> PairAgreedWeight(DpoPairs(g)[k])])

\* C20 (as stated): the value of a group with at least one pair of differing accuracies
\* is the |acc difference|-weighted share of its unordered pairs whose score difference
\* has the sign of the accuracy difference; it lies in [0, 1], and exchanging two
\* sequences of a group leaves the value of every group as it was.  Violated when two
\* sequences of differing accuracy have equal scores: the code counts the pair as
\* agreeing if the first of the two has the lower accuracy and as disagreeing otherwise.
C20_PairwiseSignAgreement ==
    (args.out # NotComputed /\ args.error = NoError) =>
        /\ \A g \in 1..Len(args.dpo_acc) :
              TotalWeight(g) # Rat(0) =>
                  /\ args.dpo_acc[g] = Fl(RDiv(AgreedWeight(g), TotalWeight(g)))
                  /\ RLe(Rat(0), args.dpo_acc[g]) /\ RLe(args.dpo_acc[g], Rat(1))
        /\ args.exchanged # 0 => args.dpo_acc = args.previous

\* the valid response length of row b of the batch, and its ground-truth reward
ValidLen(b) == valid_response_length(batch[b])
GroundTruth(b) == batch[b].acc

\* values sums exactly to the ground truth over the valid positions of row b, is 0
\* beyond them, and (lam = 1) the recurrence on it starts at the ground truth
Closes(values, recurrence, lam, b) ==
    /\ RSumSeq(SubSeq(values[b], 1, ValidLen(b))) = GroundTruth(b)
    /\ \A t \in (ValidLen(b) + 1)..Len(values[b]) : values[b][t] = Rat(0)
    /\ lam = Rat(1) => recurrence[b][1] = GroundTruth(b)

\* C21: with prime_use_gt, after the overwrite of compute_gae_value_returns and of the
\* lam # 0 path of _forward_micro_batch, the implicit values of every sequence with valid
\* length >= 1 sum exactly to its ground-truth reward over the valid positions and are 0
\* beyond them, and with lam = 1 the recurrence gives exactly the ground-truth reward at
\* position 0
C21_ImplicitValueClosure ==
    cfg.prime_use_gt =>
        /\ args.value # NotComputed =>
              \A b \in 1..Len(batch) :
                  Closes(args.value.q, args.value.lastgaelam, cfg.lam, b)
        /\ (args.forward # NotComputed /\ cfg.prime_lambda # Rat(0)
            /\ args.forward.error = NoError) =>
              \A b \in 1..Len(batch) :
                  Closes(args.forward.q_, args.forward.r, cfg.prime_lambda, b)

\* compute_rm_score has returned (the worker is idle after at least one call)
RmReturned == pc = "rm_idle" /\ args.call > 0

\* C22: within one call of compute_rm_score, mode 'none' runs no backward pass and no
\* optimizer step; in mode 'after' every returned score was computed before any
\* optimizer step of the call; in mode 'before' every returned score was computed after
\* the last optimizer step of the call
C22_ScoresVersusUpdate ==
    RmReturned =>
        /\ cfg.update = "none" =>
              args.backwards = 0 /\ args.steps = <<>> /\ args.weights = args.start
        /\ cfg.update = "after" =>
              \A i \in 1..Len(args.output) : args.output[i] = args.start
        /\ cfg.update = "before" =>
              \A i \in 1..Len(args.output) : args.output[i] = args.weights

\* the micro-batches of the current call with indices batch_id - k + 1 .. batch_id
LastMicroBatches(k, batch_id) == [i \in 1..k |-> <<args.call, batch_id - k + i>>]

\* C23: an optimizer step is taken exactly after every accumulate_steps-th micro-batch,
\* each step uses the gradients of exactly the accumulate_steps micro-batches since the
\* previous step, and no accumulated gradient is left pending when compute_rm_score
\* returns
C23_AccumulationCompletes ==
    (cfg.update \in {"after", "before"} /\ accumulate_steps(cfg)[2] = 1) =>
        /\ \A i \in 1..Len(args.steps) :
              /\ args.steps[i].batch_id + 1 = i * accumulate_steps(cfg)[1]
              /\ args.steps[i].used
                    = LastMicroBatches(accumulate_steps(cfg)[1], args.steps[i].batch_id)
        /\ pc = "rm_loop" => Len(args.steps) = args.batch_id \div accumulate_steps(cfg)[1]
        /\ RmReturned => args.grad = <<>>


\* C24: in adaptive entropy mode, once the critic warmup is over the coefficient handed
\* to the actor update is defined: fit does not fail reading it, the first actor update
\* gets 0 and each later one the previous coefficient plus 0.01 * (target - the entropy
\* the previous update reported), one update of the coefficient per actor update
C24_EntropyCoeffDefined ==
    cfg.entropy_mode = "adaptive" =>
        /\ pc # "ent_failed"
        /\ Len(args.handed) = args.updates
        /\ \A i \in 1..Len(args.handed) :
              args.handed[i] = IF i = 1 THEN Rat(0)
                               ELSE entropy_coeff_update(args.handed[i - 1], cfg.entropy_coeff,
                                                         args.reported[i - 1])


\* the step taken calls a method of a worker group
Dispatching == log' # log /\ log' # <<>> /\ log'[Len(log')] \in Dispatches

\* the step taken updates the KL controller or changes the overflow buffer
Mutating == kl_ctrl' # kl_ctrl \/ kl_updates' # kl_updates \/ buffer' # buffer

\* C25 as stated: the KL controller and the overflow buffer change only between steps,
\* that is at the head of `while True` or at the increment of global_steps
C25_OnlyBetweenSteps == [][Mutating => pc \in {"step_start", "step_end"}]_vars

\* C25, amended: the KL controller changes only in the driver's apply_kl_penalty, in the
\* middle of a step; the buffer only in the driver's get_from_buffer at the head of a
\* step and in its add_to_buffer after the collection; no step that calls a worker
\* group changes either
C25_DriverMutatesBetweenDispatches ==
    [][/\ (kl_ctrl' # kl_ctrl \/ kl_updates' # kl_updates) => pc = "kl"
       /\ buffer' # buffer => pc \in {"step_start", "check"}
       /\ Dispatching => ~Mutating]_vars

\* the KL controller has moved in the middle of a step whose overflow went to the buffer
C25_Witness ==
    /\ pc = "adv"
    /\ kl_ctrl # InitKlCtrl(cfg)
    /\ buffer # <<>>
    /\ \E i \in 1..Len(log) : log[i] = "add_to_buffer"
    /\ \E i \in 1..Len(log) : log[i] \in Dispatches


\* C26: for every sequence of the micro-batch, of valid response length L >= 1 and
\* process reward r: with granularity 'token' the score at position t is r[t] for t < L
\* and 0 from L on; with 'whole' the score at position L-1 is the sum of r[0..L-1] and 0
\* elsewhere; in both the scores of the sequence sum to the sum of r over its valid
\* positions; every other granularity fails with NotImplementedError
C26_ScoreAssembly ==
    args.forward # NotComputed =>
        IF cfg.prime_granularity \notin {"token", "whole"}
        THEN args.forward.error = NotImplementedError
        ELSE /\ args.forward.error = NoError
             /\ \A i \in 1..Len(batch) :
                   LET L == ValidLen(i)
                       r == args.forward.r[i]
                       score == args.forward.token_level_score[i]
                   IN  /\ Len(score) = Len(r)
                       /\ cfg.prime_granularity = "token" =>
                             \A t \in 1..Len(r) : score[t] = IF t <= L THEN r[t] ELSE Rat(0)
                       /\ cfg.prime_granularity = "whole" =>
                             \A t \in 1..Len(r) :
                                score[t] = IF t = L THEN FlSum(SubSeq(r, 1, L)) ELSE Rat(0)
                       /\ FlSum(score) = FlSum(SubSeq(r, 1, L))

\* a 'whole' score was assembled for a sequence shorter than the tensor whose process
\* reward is not zero in the padding
C26_Witness ==
    /\ args.forward # NotComputed
    /\ cfg.prime_granularity = "whole"
    /\ args.forward.error = NoError
    /\ ValidLen(1) >= 2
    /\ ValidLen(1) < Len(args.forward.r[1])
    /\ args.forward.r[1][Len(args.forward.r[1])] # Rat(0)
    /\ args.forward.token_level_score[1][ValidLen(1)] # Rat(0)


\* compute_advantage has returned normally
AdvDone == pc = "unit_adv_done"

\* the response mask of the batch
ResponseMask == [b \in 1..Len(batch) |-> response_mask(batch[b])]

\* the values of tensor x at the valid response positions of the batch
ValidValues(x) ==
    MaskedValues(x, [b \in 1..Len(batch) |-> [t \in 1..Len(x[b]) |-> ResponseMask[b][t] # 0]])

\* every value of x at a valid response position is a tracked number
AllTracked(x) == \A i \in 1..Len(ValidValues(x)) : ValidValues(x)[i][2] # 0

\* the signal the estimator of the configuration whitens: the returns, for gae the
\* returns minus the values, for gae_value the recurrence on the implicit values
Signal ==
    CASE cfg.adv_estimator = "gae" ->
            [b \in 1..Len(batch) |->
                [t \in 1..Len(batch[b].returns) |->
                    RSub(batch[b].returns[t], batch[b].values[t])]]
      [] cfg.adv_estimator = "gae_value" ->
            compute_gae_value_returns(batch, ResponseMask, cfg.n_samples, cfg, cfg.lam,
                                      cfg.gamma).lastgaelam
      [] OTHER -> Tensor(batch, "returns")

Constant(s) == \A i, j \in 1..Len(s) : s[i] = s[j]

\* the advantages written are the signal minus its mean over the valid positions, to be
\* divided by the root of their variance, and their mean over the valid positions is 0
WhitenedOnce ==
    /\ Tensor(batch, "advantages") = masked_whiten(Signal, ResponseMask).centered
    /\ RSumSeq(ValidValues(Tensor(batch, "advantages"))) = Rat(0)

GrpoGroup(b) ==
    LET start_pos == ((b - 1) \div cfg.n_samples) * cfg.n_samples
    IN  {start_pos + i : i \in 1..cfg.n_samples}

\* the verifier reward of row b, at its last valid token
MaskedReward(b) == batch[b].gt_scores[ValidLen(b)]

\* C28: in compute_grpo_returns (verifier rewards only, gamma 1) every sequence of a
\* group whose masked rewards are all equal, a group with a single masked reward
\* included, has normalised reward exactly 0 at its masked position, and not NaN
C28_DegenerateGroupZero ==
    (AdvDone /\ cfg.adv_estimator = "grpo" /\ ~Has(batch, "rm_scores")) =>
        \A b \in 1..Len(batch) :
            (\A i \in GrpoGroup(b) : MaskedReward(i) = MaskedReward(b)) =>
                batch[b].returns[ValidLen(b)] = Rat(0)


\* a checkpoint is due in the completed step of index k
CheckpointDue(k) == cfg.save_freq > 0 /\ (k + 1) % cfg.save_freq = 0

\* the roles that write a checkpoint
CheckpointRoles ==
    {"actor"} \cup (IF use_critic THEN {"critic"} ELSE {})
              \cup (IF cfg.use_rm /\ cfg.rm_update # "none" THEN {"reward"} ELSE {})

\* the checkpoints of the steps 0 .. n - 1
CheckpointsUpTo(n) ==
    {<<role, k>> : role \in CheckpointRoles, k \in {j \in 0..(n - 1) : CheckpointDue(j)}}

\* the entries of the log before position i
Before(i) == {log[j] : j \in 1..(i - 1)}

\* global_steps counts the completed steps; the checkpoints written are those of the
\* completed steps (and of the current one once it has saved) in which one is due, under
\* the key of the step, for the roles that checkpoint; a save_checkpoint comes after the
\* step's update_critic, update_actor, validation and logger.log
CheckpointCadence ==
    /\ global_steps = completed
    /\ checkpoints = CheckpointsUpTo(IF pc = "step_end" THEN global_steps + 1 ELSE global_steps)
    /\ \A i \in 1..Len(log) :
          log[i] = "save_checkpoint" =>
             /\ i = Len(log)
             /\ "logger.log" \in Before(i)
             /\ use_critic => "update_critic" \in Before(i)
             /\ PastWarmup => "update_actor" \in Before(i)
             /\ ValidationDue => "_validate" \in Before(i)

\* global_steps does not change but by the increment of 1 that ends a completed step; a
\* step that is abandoned leaves it alone
StepCounter ==
    /\ global_steps' # global_steps => (pc = "step_end" /\ global_steps' = global_steps + 1)
    /\ pc = "break" => global_steps' = global_steps

\* C29: global_steps starts at 0 and grows by exactly 1 per completed step, never for an
\* abandoned one; the completed step of index k writes a checkpoint if and only if
\* save_freq > 0 and (k + 1) % save_freq = 0, after its updates, validation and metric
\* logging, under the key k: of the actor always, of the critic when one is used, of the
\* reward model when one is used with an update mode other than 'none'
C29_StepsAndCheckpoints == []CheckpointCadence /\ [][StepCounter]_vars

\* two steps are completed with save_freq 2: the second one wrote the checkpoints of the
\* actor, the critic and the reward model under key 1, the first one wrote none
C29_Witness ==
    /\ completed = 2
    /\ cfg.save_freq = 2
    /\ checkpoints = {<<"actor", 1>>, <<"critic", 1>>, <<"reward", 1>>}


\* C30: the prompts drained from the overflow buffer at the head of a step leave the
\* local buffer_batch only by being prepended to the prompts of a generation request of
\* that step, also when the data source is exhausted before a batch can be pulled
C30_NoBufferedPromptLost ==
    [][(buffer_batch # <<>> /\ buffer_batch' # buffer_batch) =>
          /\ pc = "generate"
          /\ \A i \in 1..Len(buffer_batch) : newbatch'[i] = buffer_batch[i]]_vars

====
